---- MODULE Spec2Model ----
(***************************************************************************)
(* Teacher attendance over RFID scans: the device gateway (IoTConsumer:    *)
(* handshake, frame handler, process_rfid, save_energy_log), the one-shot  *)
(* timeout task (timeout_session), its arming function                     *)
(* (schedule_session_timeout) and the periodic sweep                       *)
(* (auto_timeout_sessions), over the shared AttendanceSession and          *)
(* EnergyLog tables and the channel layer's groups.                        *)
(*                                                                         *)
(* Instants are minutes since midnight of day 0; day 0 is a Monday.  Time  *)
(* zones are not modelled: every instant is on one common axis.            *)
(* The User, Classroom and Schedule tables are fixed during a behaviour    *)
(* (their CRUD views are not part of the model), so the reads of those     *)
(* tables commute with every other step and are folded into the step of    *)
(* the handler that uses them.  Every read or write of the session table   *)
(* is a step of its own wherever the code issues it as a separate query.   *)
(***************************************************************************)
EXTENDS Integers, Sequences, FiniteSets, TLC

VARIABLES
    schedules,   \* the Schedule table (set of rows), fixed after Init
    sessions,    \* the AttendanceSession table: row id = position
    conn,        \* per device connection: handler position, scan in hand, result
    now,         \* the server's wall clock
    task,        \* per session id: the one-shot timeout_session task
    sweep,       \* the periodic auto_timeout_sessions run
    sent,        \* per session id: auto_timeout events published so far
    writes,      \* per session id: AUTO_OUT writes by a timeout path so far
    link,        \* per device connection: the socket (new, open, closed)
    groups,      \* channel-layer membership: pairs <<group, channel>>
    energy,      \* the EnergyLog table: row id = position
    handled,     \* the frame receive() handled last, with what it sent
    active,      \* ids of the Classroom rows whose is_active is set
    dash,        \* per dashboard connection: socket, scope, messages sent to it
    ran          \* the last uninterrupted scheduler run: what it found and how it ended

\* what only the device gateway's handshake and frame handler touch
gateway == <<link, groups, energy, handled>>

\* what only the dashboards and the Classroom views touch
board == <<active, dash>>

vars == <<schedules, sessions, conn, now, task, sweep, sent, writes,
          link, groups, energy, handled, active, dash, ran>>

----------------------------------------------------------------------------
(* Bounds of the model *)

\* rows the concurrent specification lets the table grow to
MaxSessions == 2
\* rows the sequential-scan specification lets the table grow to
MaxRows == 1
\* rows the EnergyLog table may grow to
MaxEnergy == 2

----------------------------------------------------------------------------
(* Program constants *)

\* minutes in a day: datetime.time() drops the date, so times wrap here
DayMinutes == 1440
\* timedelta(minutes=15)
GraceMinutes == 15
\* null=True: an unset time_out / expected_out
NoTime == -1
\* null=True: an unset schedule foreign key
NoSchedule == 0
\* no row id (a result that carries no session_id)
NoSession == 0
\* no teacher resolved
NoTeacher == 0

----------------------------------------------------------------------------
(* Fixed tables *)

\* User rows.  rfid_uid "" stands for NULL (no tag assigned).
Users ==
    { [id |-> 1, rfid_uid |-> "A1B2", role |-> "teacher", is_active |-> TRUE],
      [id |-> 2, rfid_uid |-> "C3D4", role |-> "teacher", is_active |-> TRUE],
      [id |-> 3, rfid_uid |-> "E5F6", role |-> "teacher", is_active |-> FALSE],
      [id |-> 4, rfid_uid |-> "0A0B", role |-> "admin",   is_active |-> TRUE],
      [id |-> 5, rfid_uid |-> "",     role |-> "teacher", is_active |-> TRUE] }

\* Classroom ids
Classrooms == {1, 2}

\* Schedule rows a table may hold.  unique_together is
\* (teacher, classroom, day_of_week, start_time); windows may overlap.
SchedulePool ==
    { [id |-> 1, teacher |-> 1, classroom |-> 1, day_of_week |-> 0,
       start_time |-> 480, end_time |-> 540],     \* Mon 08:00-09:00
      [id |-> 2, teacher |-> 1, classroom |-> 1, day_of_week |-> 0,
       start_time |-> 510, end_time |-> 600],     \* Mon 08:30-10:00
      [id |-> 3, teacher |-> 1, classroom |-> 1, day_of_week |-> 0,
       start_time |-> 1435, end_time |-> 1439],   \* Mon 23:55-23:59
      [id |-> 4, teacher |-> 2, classroom |-> 2, day_of_week |-> 0,
       start_time |-> 480, end_time |-> 540],     \* Mon 08:00-09:00
      [id |-> 5, teacher |-> 1, classroom |-> 1, day_of_week |-> 1,
       start_time |-> 480, end_time |-> 540],     \* Tue 08:00-09:00
      [id |-> 6, teacher |-> 1, classroom |-> 1, day_of_week |-> 0,
       start_time |-> 490, end_time |-> 600],     \* Mon 08:10-10:00
      [id |-> 7, teacher |-> 1, classroom |-> 1, day_of_week |-> 0,
       start_time |-> 500, end_time |-> 570] }    \* Mon 08:20-09:30

SchedulesById(ids) == {s \in SchedulePool : s.id \in ids}

\* calendar dates a scan may carry: a Monday and the Tuesday after it
Dates == {0, 1}

----------------------------------------------------------------------------
(* datetime helpers *)

\* timestamp.date()
DateOf(ts) == ts \div DayMinutes
\* timestamp.time()
TimeOf(ts) == ts % DayMinutes
\* timestamp.weekday(): day 0 is a Monday
Weekday(ts) == DateOf(ts) % 7
\* datetime.combine(date, time)
Combine(date, time) == date * DayMinutes + time

----------------------------------------------------------------------------
(* process_rfid, query by query *)

\* the lookup with the is_active filter left out
TeachersByTag_IgnoreActive(rfid_uid) ==
    {u \in Users : u.rfid_uid = rfid_uid /\ u.role = "teacher"}

\* User.objects.get(rfid_uid=..., role='teacher', is_active=True):
\* the matching rows (rfid_uid is unique, so at most one)
TeachersByTag(rfid_uid) ==
    {u \in Users : u.rfid_uid = rfid_uid /\ u.role = "teacher" /\ u.is_active}

\* the duplicate check without the classroom in its filter
existing_session_AnyClassroom(S, teacher, classroom, today) ==
    {i \in 1..Len(S) : /\ S[i].teacher = teacher
                       /\ S[i].date = today
                       /\ S[i].status = "IN"}

\* the duplicate check without the status in its filter
existing_session_AnyStatus(S, teacher, classroom, today) ==
    {i \in 1..Len(S) : /\ S[i].teacher = teacher
                       /\ S[i].classroom = classroom
                       /\ S[i].date = today}

\* AttendanceSession.objects.filter(teacher, classroom, date=today, status='IN')
existing_session(S, teacher, classroom, today) ==
    {i \in 1..Len(S) : /\ S[i].teacher = teacher
                       /\ S[i].classroom = classroom
                       /\ S[i].date = today
                       /\ S[i].status = "IN"}

\* .first() under the reverse ordering: the candidate that starts latest
FirstSchedule_Latest(cands) ==
    CHOOSE s \in cands : \A o \in cands : s.start_time >= o.start_time

\* .first() under Meta.ordering = ['day_of_week', 'start_time'] of Schedule;
\* all candidates share the weekday, and start_time is unique among them
FirstSchedule(cands) ==
    CHOOSE s \in cands : \A o \in cands : s.start_time <= o.start_time

\* filter(..., start_time__lte=current_time, end_time__gte=current_time)
ContainingSchedules(tbl, teacher, classroom, day_of_week, current_time) ==
    {s \in tbl : /\ s.teacher = teacher
                 /\ s.classroom = classroom
                 /\ s.day_of_week = day_of_week
                 /\ s.start_time <= current_time
                 /\ s.end_time >= current_time}

\* (datetime.combine(today, current_time) + timedelta(minutes=15)).time()
time_threshold(today, current_time) ==
    TimeOf(Combine(today, current_time) + GraceMinutes)

\* filter(..., start_time__gte=current_time, start_time__lte=time_threshold)
GraceSchedules(tbl, teacher, classroom, day_of_week, today, current_time) ==
    {s \in tbl : /\ s.teacher = teacher
                 /\ s.classroom = classroom
                 /\ s.day_of_week = day_of_week
                 /\ s.start_time >= current_time
                 /\ s.start_time <= time_threshold(today, current_time)}

\* the lookups with the grace window tried first
FindSchedule_GraceFirst(tbl, teacher, classroom, ts) ==
    LET inside == ContainingSchedules(tbl, teacher, classroom,
                                      Weekday(ts), TimeOf(ts))
        early  == GraceSchedules(tbl, teacher, classroom,
                                 Weekday(ts), DateOf(ts), TimeOf(ts))
    IN  IF early # {} THEN FirstSchedule(early).id
        ELSE IF inside # {} THEN FirstSchedule(inside).id
        ELSE NoSchedule

\* the two schedule lookups: the id of the chosen row, or NoSchedule
FindSchedule(tbl, teacher, classroom, ts) ==
    LET inside == ContainingSchedules(tbl, teacher, classroom,
                                      Weekday(ts), TimeOf(ts))
        early  == GraceSchedules(tbl, teacher, classroom,
                                 Weekday(ts), DateOf(ts), TimeOf(ts))
    IN  IF inside # {} THEN FirstSchedule(inside).id
        ELSE IF early # {} THEN FirstSchedule(early).id
        ELSE NoSchedule

ScheduleRow(id) == CHOOSE s \in SchedulePool : s.id = id

\* the insert with status left to the column default 'IN'
NewSession_DefaultStatus(teacher, classroom, schedule, ts, rfid_uid) ==
    [ teacher       |-> teacher,
      classroom     |-> classroom,
      schedule      |-> schedule,
      date          |-> ts \div DayMinutes,
      time_in       |-> ts,
      time_out      |-> NoTime,
      expected_out  |-> NoTime,
      status        |-> "IN",
      rfid_uid_used |-> rfid_uid ]

\* the row AttendanceSession.objects.create(...) inserts
NewSession(teacher, classroom, schedule, ts, rfid_uid) ==
    [ teacher       |-> teacher,
      classroom     |-> classroom,
      schedule      |-> schedule,
      date          |-> DateOf(ts),
      time_in       |-> ts,
      time_out      |-> NoTime,
      expected_out  |-> IF schedule # NoSchedule
                        THEN Combine(DateOf(ts), ScheduleRow(schedule).end_time)
                        ELSE NoTime,
      status        |-> IF schedule # NoSchedule THEN "IN" ELSE "INVALID",
      rfid_uid_used |-> rfid_uid ]

\* the dictionaries process_rfid returns
Result(event, session_id, teacher, classroom, status, expected_out, rfid_uid) ==
    [ event |-> event, session_id |-> session_id, teacher |-> teacher,
      classroom |-> classroom, status |-> status,
      expected_out |-> expected_out, rfid_uid |-> rfid_uid ]

NoResult == Result("none", NoSession, NoTeacher, 0, "none", NoTime, "")

ErrorResult(rfid_uid) ==
    Result("attendance_error", NoSession, NoTeacher, 0, "none", NoTime, rfid_uid)

DuplicateResult(teacher, classroom) ==
    Result("attendance_duplicate", NoSession, teacher, classroom, "none", NoTime, "")

\* the result of an insert naming the row before the new one
CreatedResult_PreviousId(id, row) ==
    Result(IF row.status = "IN" THEN "attendance_in" ELSE "attendance_invalid",
           id - 1, row.teacher, row.classroom, row.status, row.expected_out, "")

\* lines 224-239: the result returned after the insert
CreatedResult(id, row) ==
    Result(IF row.status = "IN" THEN "attendance_in" ELSE "attendance_invalid",
           id, row.teacher, row.classroom, row.status, row.expected_out, "")

\* the handler with the duplicate check left out
CheckScan_NoDuplicateGuard(S, classroom, rfid_uid, ts) ==
    LET found == TeachersByTag(rfid_uid)
    IN  IF found = {}
        THEN [teacher |-> NoTeacher, result |-> ErrorResult(rfid_uid)]
        ELSE [teacher |-> (CHOOSE u \in found : TRUE).id, result |-> NoResult]

\* everything up to and including the duplicate check (lines 157-182):
\* the teacher found, and the result if the handler returns here
CheckScan(S, classroom, rfid_uid, ts) ==
    LET found == TeachersByTag(rfid_uid)
    IN  IF found = {}
        THEN [teacher |-> NoTeacher, result |-> ErrorResult(rfid_uid)]
        ELSE LET teacher == (CHOOSE u \in found : TRUE).id
             IN  IF existing_session(S, teacher, classroom, DateOf(ts)) # {}
                 THEN [teacher |-> teacher,
                       result  |-> DuplicateResult(teacher, classroom)]
                 ELSE [teacher |-> teacher, result |-> NoResult]

\* the schedule lookup and the insert (lines 184-239)
CreateSession(S, tbl, teacher, classroom, rfid_uid, ts) ==
    LET row == NewSession(teacher, classroom,
                          FindSchedule(tbl, teacher, classroom, ts), ts, rfid_uid)
    IN  [sessions |-> Append(S, row), result |-> CreatedResult(Len(S) + 1, row)]

\* process_rfid run without interruption
process_rfid(S, tbl, classroom, rfid_uid, ts) ==
    LET chk == CheckScan(S, classroom, rfid_uid, ts)
    IN  IF chk.result # NoResult
        THEN [sessions |-> S, result |-> chk.result]
        ELSE CreateSession(S, tbl, chk.teacher, classroom, rfid_uid, ts)

----------------------------------------------------------------------------
(* The timeout paths *)

\* an in-memory row that holds nothing
NoRow ==
    [ teacher |-> NoTeacher, classroom |-> 0, schedule |-> NoSchedule,
      date |-> 0, time_in |-> 0, time_out |-> NoTime, expected_out |-> NoTime,
      status |-> "none", rfid_uid_used |-> "" ]

\* report: what a finished timeout_session run returned
NoTask == [pc |-> "none", eta |-> NoTime, row |-> NoRow, report |-> "none"]

\* the guard with the status test left out
StillIn_Always(row) == TRUE

\* timeout_session line 34, negated: the row read is still IN
StillIn(row) == row.status = "IN"

\* timeout_session lines 30-36 and 68-70: what the run does after its read
\* of session_id: return 'not found', return 'already <status>', or go on
TimeoutOutcome(S, id) ==
    IF id \notin 1..Len(S) THEN "not_found"
    ELSE IF ~StillIn(S[id]) THEN "skipped"
    ELSE "loaded"

\* the one-shot task with time_out always the wall clock
TimeoutRow_Now(row, clock) ==
    [row EXCEPT !.status = "AUTO_OUT", !.time_out = clock]

\* timeout_session lines 39-40, on the row it loaded
TimeoutRow(row, clock) ==
    [row EXCEPT !.status = "AUTO_OUT",
                !.time_out = IF row.expected_out # NoTime
                             THEN row.expected_out ELSE clock]

\* the sweep recording the instant at which it ran
SweepRow_Now(row) ==
    [row EXCEPT !.status = "AUTO_OUT", !.time_out = now]

\* the sweep changing the status and leaving time_out as it was
SweepRow_StatusOnly(row) ==
    [row EXCEPT !.status = "AUTO_OUT"]

\* auto_timeout_sessions lines 121-122, on a row of its result set
SweepRow(row) ==
    [row EXCEPT !.status = "AUTO_OUT", !.time_out = row.expected_out]

\* the filter with the comparison turned round (expected_out__gte=now)
Overdue_Inverted(S, clock) ==
    {i \in 1..Len(S) : /\ S[i].status = "IN"
                       /\ S[i].expected_out # NoTime
                       /\ S[i].expected_out >= clock}

\* the filter without the comparison with the clock
Overdue_NoClock(S, clock) ==
    {i \in 1..Len(S) : S[i].status = "IN" /\ S[i].expected_out # NoTime}

\* filter(status='IN', expected_out__lte=now): NULL never compares <=
Overdue(S, clock) ==
    {i \in 1..Len(S) : /\ S[i].status = "IN"
                       /\ S[i].expected_out # NoTime
                       /\ S[i].expected_out <= clock}

\* Meta.ordering = ['-date', '-time_in'] of AttendanceSession (ties by id)
Before(S, i, j) ==
    \/ S[i].date > S[j].date
    \/ S[i].date = S[j].date /\ S[i].time_in > S[j].time_in
    \/ S[i].date = S[j].date /\ S[i].time_in = S[j].time_in /\ i < j

RECURSIVE Ordered(_, _)
Ordered(S, ids) ==
    IF ids = {} THEN <<>>
    ELSE LET h == CHOOSE i \in ids : \A j \in ids \ {i} : Before(S, i, j)
         IN  <<[id |-> h, row |-> S[h]]>> \o Ordered(S, ids \ {h})

\* the rows the sweep's queryset yields when the loop starts
sessions_to_timeout(S, clock) == Ordered(S, Overdue(S, clock))

\* session.save(): every column of the row is written from the object
Save(S, id, row) == [S EXCEPT ![id] = row]

Bump(f, id) == [f EXCEPT ![id] = @ + 1]

----------------------------------------------------------------------------
(* Device gateway: connection handshake *)

\* Classroom rows: id, is_active as the table starts, device_token,
\* device_id
ClassroomTable ==
    { [id |-> 1, is_active |-> TRUE,  device_token |-> "tok1",
       device_id |-> "esp-1"],
      [id |-> 2, is_active |-> TRUE,  device_token |-> "tok2",
       device_id |-> "esp-2"],
      [id |-> 3, is_active |-> FALSE, device_token |-> "tok3",
       device_id |-> "esp-3"] }

\* a query string is the sequence of its '&'-separated parts; a part is
\* key=value (eq TRUE, split at the first '=') or a bare word (eq FALSE)
Part(key, value) == [key |-> key, eq |-> TRUE, value |-> value]
Bare(key) == [key |-> key, eq |-> FALSE, value |-> ""]

\* connect lines 22-26: the dict built from the parts, read at key 'token'
\* with default ''; a later part overwrites an earlier one
RECURSIVE TokenParam(_)
TokenParam(query) ==
    IF query = <<>> THEN ""
    ELSE LET last == query[Len(query)]
         IN  IF last.eq /\ last.key = "token"
             THEN last.value
             ELSE TokenParam(SubSeq(query, 1, Len(query) - 1))

\* the check with the is_active test left out
verify_device_IgnoreActive(classroom_id, token) ==
    \E r \in ClassroomTable : r.id = classroom_id /\ r.device_token = token

\* verify_device: the row exists, is active and holds this token
verify_device(classroom_id, token) ==
    \E r \in ClassroomTable :
        r.id = classroom_id /\ r.id \in active /\ r.device_token = token

\* channel-layer group names
IotGroup(classroom_id) == <<"iot_classroom", classroom_id>>
DashboardGroup(classroom_id) == <<"dashboard_classroom", classroom_id>>

\* close code of a refused device
AuthFailed == 4003

NewLink == [state |-> "new", code |-> 0, classroom_id |-> 0, query |-> <<>>]
\* a socket accepted earlier: it came with its classroom's token
OpenLink(classroom_id) ==
    [ state |-> "open", code |-> 0, classroom_id |-> classroom_id,
      query |-> <<Part("token",
                       (CHOOSE r \in ClassroomTable : r.id = classroom_id).device_token)>> ]

\* the handshake joining the device group before the token is verified
connect_JoinFirst(G, c, classroom_id, query) ==
    [ link   |-> [state |-> IF verify_device(classroom_id, TokenParam(query))
                            THEN "open" ELSE "closed",
                  code |-> IF verify_device(classroom_id, TokenParam(query))
                           THEN 0 ELSE AuthFailed,
                  classroom_id |-> classroom_id, query |-> query],
      groups |-> G \cup {<<IotGroup(classroom_id), c>>} ]

\* IoTConsumer.connect: close(4003) and return, or accept and join the
\* classroom's device group
connect(G, c, classroom_id, query) ==
    IF ~verify_device(classroom_id, TokenParam(query))
    THEN [ link   |-> [state |-> "closed", code |-> AuthFailed,
                       classroom_id |-> classroom_id, query |-> query],
           groups |-> G ]
    ELSE [ link   |-> [state |-> "open", code |-> 0,
                       classroom_id |-> classroom_id, query |-> query],
           groups |-> G \cup {<<IotGroup(classroom_id), c>>} ]

----------------------------------------------------------------------------
(* Device gateway: one message *)

\* a text frame: body "object" is a JSON object with the optional keys
\* below, body "malformed" is text json.loads rejects; device_id "" is the
\* key left out
Message(body, has_rfid, rfid_uid, has_power, power, has_ts, ts) ==
    [ body |-> body, has_rfid |-> has_rfid, rfid_uid |-> rfid_uid,
      has_power |-> has_power, power |-> power,
      has_timestamp |-> has_ts, timestamp |-> ts, device_id |-> "" ]

\* the frame msg with the key device_id set by the sender
From(msg, device_id) == [msg EXCEPT !.device_id = device_id]

NoMessage == Message("none", FALSE, "", FALSE, 0, FALSE, "")

\* timestamp strings that are empty after strip()
BlankStrings == {"", " ", "   "}

\* strings datetime.fromisoformat accepts, with the instant they denote
\* (1970-01-05 is a Monday: day 0)
IsoInstants ==
    { [text |-> "1970-01-05T11:40:00+00:00", instant |-> 700],
      [text |-> "1970-01-05T08:10:00+00:00", instant |-> 490] }

\* str.replace('Z', '+00:00') on the strings a device may send
ReplaceZ(text) ==
    CASE text = "1970-01-05T11:40:00Z" -> "1970-01-05T11:40:00+00:00"
      [] text = "1970-01-05T08:10:00Z" -> "1970-01-05T08:10:00+00:00"
      [] OTHER -> text

EndsWithZ(text) == text \in {"1970-01-05T11:40:00Z", "1970-01-05T08:10:00Z"}

\* the parse with no fallback: a string that does not parse yields no time
ParseTimestamp_NoFallback(has_timestamp, text, clock) ==
    IF has_timestamp /\ text \notin BlankStrings
    THEN LET iso == IF EndsWithZ(text) THEN ReplaceZ(text) ELSE text
             hit == {r \in IsoInstants : r.text = iso}
         IN  IF hit # {} THEN (CHOOSE r \in hit : TRUE).instant ELSE NoTime
    ELSE NoTime

\* receive lines 68-85: the device's timestamp, or the server clock when the
\* field is None, empty, blank or raises ValueError in fromisoformat
ParseTimestamp(has_timestamp, text, clock) ==
    IF has_timestamp /\ text \notin BlankStrings
    THEN LET iso == IF EndsWithZ(text) THEN ReplaceZ(text) ELSE text
             hit == {r \in IsoInstants : r.text = iso}
         IN  IF hit # {} THEN (CHOOSE r \in hit : TRUE).instant ELSE clock
    ELSE clock

\* the test of line 101 written as truthiness
HasPower_Truthy(msg) == msg.has_power /\ msg.power # 0

\* receive line 101: power is not None
HasPower(msg) == msg.has_power

\* receive line 87: rfid_uid is truthy
HasTag(msg) == msg.has_rfid /\ msg.rfid_uid # ""

\* what group_send publishes
Event(group, type, data, watts, timestamp) ==
    [ group |-> group, type |-> type, data |-> data,
      watts |-> watts, timestamp |-> timestamp ]

\* the attendance event sent to every dashboard
AttendanceEvent_ToAll(classroom, result) ==
    Event(<<"dashboard_all", 0>>, "attendance_event", result, 0, NoTime)

\* receive lines 92-99
AttendanceEvent(classroom, result) ==
    Event(DashboardGroup(classroom), "attendance_event", result, 0, NoTime)

\* the power update sent to the classroom's devices
PowerEvent_ToDevices(classroom, watts, timestamp) ==
    Event(IotGroup(classroom), "power_update", NoResult, watts, timestamp)

\* receive lines 105-113
PowerEvent(classroom, watts, timestamp) ==
    Event(DashboardGroup(classroom), "power_update", NoResult, watts, timestamp)

\* save_energy_log: the EnergyLog row created
EnergyRow(classroom, watts, timestamp) ==
    [classroom |-> classroom, watts |-> watts, timestamp |-> timestamp]

\* the reply to the device
Ack(status, timestamp, message) ==
    [status |-> status, timestamp |-> timestamp, message |-> message]

\* the ok reply without the server time
OkAck_NoTimestamp(clock) == Ack("ok", NoTime, "")

\* receive lines 116-119
OkAck(clock) == Ack("ok", clock, "")

\* the reply to malformed JSON sent as a success
InvalidJsonAck_Ok == Ack("ok", NoTime, "Invalid JSON")

\* receive lines 121-125
InvalidJsonAck == Ack("error", NoTime, "Invalid JSON")

\* process_rfid lines 249-255: what the handler returns when a query or
\* the insert raises (the data carries the exception's text, no rfid_uid)
StoreErrorResult ==
    Result("attendance_error", NoSession, NoTeacher, 0, "none", NoTime, "")

\* the failing insert leaving its row behind
ScanOutcome_PartialRow(S, tbl, classroom, rfid_uid, ts, fault) ==
    [ sessions |-> process_rfid(S, tbl, classroom, rfid_uid, ts).sessions,
      result   |-> IF fault THEN StoreErrorResult
                   ELSE process_rfid(S, tbl, classroom, rfid_uid, ts).result ]

\* process_rfid with the store working, or with one of its queries raising:
\* nothing is inserted and the broad except returns the error result
ScanOutcome(S, tbl, classroom, rfid_uid, ts, fault) ==
    IF fault
    THEN [sessions |-> S, result |-> StoreErrorResult]
    ELSE process_rfid(S, tbl, classroom, rfid_uid, ts)

\* the handler taking the classroom from the device the payload names,
\* when the payload names one
Attributed_ByDeviceId(classroom, msg) ==
    LET named == {r \in ClassroomTable : r.device_id = msg.device_id}
    IN  IF named # {} THEN (CHOOSE r \in named : TRUE).id ELSE classroom

\* the classroom a frame's rows and events are attributed to: always
\* self.classroom_id, set from the route at connect (lines 93, 107, 160,
\* 262); the device_id read at line 65 is never used
Attributed(classroom, msg) == classroom

\* the handler acknowledging before it does anything else
Steps_AckFirst(msg) ==
    <<"send_ack">>
    \o (IF msg.body = "object" /\ HasTag(msg)
        THEN <<"process_rfid", "send_attendance_event">> ELSE <<>>)
    \o (IF msg.body = "object" /\ HasPower(msg)
        THEN <<"save_energy_log", "send_power_update">> ELSE <<>>)

\* the awaits of receive() in the order the handler reaches them (lines
\* 88, 91, 103, 106, 116; 122 for a malformed body)
Steps(msg) ==
    IF msg.body = "malformed" THEN <<"send_ack">>
    ELSE (IF HasTag(msg)
          THEN <<"process_rfid", "send_attendance_event">> ELSE <<>>)
         \o (IF HasPower(msg)
             THEN <<"save_energy_log", "send_power_update">> ELSE <<>>)
         \o <<"send_ack">>

\* IoTConsumer.receive on one frame: the tables afterwards, the events
\* published and the replies sent, in order
receive(S, E, tbl, clock, classroom, msg, fault) ==
    IF msg.body = "malformed"
    THEN [sessions |-> S, energy |-> E, events |-> <<>>,
          acks |-> <<InvalidJsonAck>>, steps |-> Steps(msg)]
    ELSE
    LET timestamp == ParseTimestamp(msg.has_timestamp, msg.timestamp, clock)
        room   == Attributed(classroom, msg)
        scan   == IF HasTag(msg)
                  THEN ScanOutcome(S, tbl, room, msg.rfid_uid, timestamp,
                                   fault)
                  ELSE [sessions |-> S, result |-> NoResult]
        ev1    == IF HasTag(msg)
                  THEN <<AttendanceEvent(room, scan.result)>>
                  ELSE <<>>
        E2     == IF HasPower(msg)
                  THEN Append(E, EnergyRow(room, msg.power, timestamp))
                  ELSE E
        ev2    == IF HasPower(msg)
                  THEN <<PowerEvent(room, msg.power, timestamp)>>
                  ELSE <<>>
    IN  [sessions |-> scan.sessions, energy |-> E2, events |-> ev1 \o ev2,
         acks |-> <<OkAck(clock)>>, steps |-> Steps(msg)]

----------------------------------------------------------------------------
(* Inputs *)

\* the device connections; each is bound to the classroom of its route
Conns == {"dev1", "dev2"}

\* tags a device may report: two active teachers, an inactive teacher,
\* an admin, and a tag no user owns
Tags == {"A1B2", "C3D4", "E5F6", "0A0B", "FFFF"}

\* times of day a scan may carry in the sequential-scan specification
ScanTimes == {460, 468, 490, 520, 700, 1430}

\* tags and times of day of the concurrent specification
RaceTags == {"A1B2", "FFFF"}
RaceTimes == {470, 700}

\* instants the server clock passes through: Monday 07:50 and 09:05, and
\* the end of Tuesday (no expected-out of the model lies after it)
ClockInstants == {470, 545, 2880}

\* Schedule tables the sequential-scan specification starts from
ScheduleConfigs ==
    { SchedulesById({}), SchedulesById({1}), SchedulesById({1, 2}),
      SchedulesById({3}), SchedulesById({1, 4, 5}) }

\* frames a device sends: every subset of the optional keys, an empty tag,
\* timestamps absent, empty, blank, unparseable and valid
FrameTags == {<<FALSE, "">>, <<TRUE, "">>, <<TRUE, "A1B2">>, <<TRUE, "FFFF">>}
FramePowers == {<<FALSE, 0>>, <<TRUE, 60>>}
FrameTimestamps ==
    { <<FALSE, "">>, <<TRUE, "">>, <<TRUE, "   ">>, <<TRUE, "not-a-time">>,
      <<TRUE, "1970-01-05T11:40:00+00:00">>, <<TRUE, "1970-01-05T11:40:00Z">> }
MalformedFrame == Message("malformed", FALSE, "", FALSE, 0, FALSE, "")
Frames ==
    {MalformedFrame} \cup
    { Message("object", r[1], r[2], p[1], p[2], t[1], t[2]) :
        r \in FrameTags, p \in FramePowers, t \in FrameTimestamps }

\* frames of a device that only meters power: a zero reading included
EnergyFrames ==
    { Message("object", FALSE, "", p[1], p[2], t[1], t[2]) :
        p \in {<<FALSE, 0>>, <<TRUE, 0>>, <<TRUE, 60>>},
        t \in {<<FALSE, "">>, <<TRUE, "1970-01-05T11:40:00Z">>} }

\* frames sent while connections come and go
HandshakeFrames ==
    { MalformedFrame,
      Message("object", TRUE, "A1B2", FALSE, 0, FALSE, ""),
      Message("object", FALSE, "", TRUE, 60, FALSE, "") }

\* classroom ids a device may put in the route: 9 has no row
RouteIds == {1, 3, 9}

\* query strings a device may send
QueryStrings ==
    { <<>>,
      <<Part("token", "tok1")>>,
      <<Part("token", "tok3")>>,
      <<Part("token", "")>>,
      <<Bare("token")>>,
      <<Part("Token", "tok1")>>,
      <<Part("device", "esp32"), Part("token", "tok1")>>,
      <<Part("token", "tok1"), Part("token", "tok3")>>,
      <<Part("token", "tok3"), Part("token", "tok1")>> }

----------------------------------------------------------------------------
(* State *)

Idle(classroom) ==
    [ classroom |-> classroom, pc |-> "idle", rfid_uid |-> "", timestamp |-> 0,
      today |-> 0, teacher |-> NoTeacher, result |-> NoResult ]
\* (rfid_uid, timestamp, today and teacher are the handler's locals;
\* timestamp is only kept while process_rfid is between two queries)

IdleSweep == [pc |-> "idle", pending |-> <<>>]

\* dashboard sockets
Dashboards == {"ui1", "ui2"}

\* nothing handled yet
NoHandled ==
    [ conn |-> "none", msg |-> NoMessage, fault |-> FALSE,
      events |-> <<>>, acks |-> <<>>, steps |-> <<>>,
      delivered |-> [d \in Dashboards |-> <<>>] ]

\* self.classroom_id of a connection on ws/dashboard/: the route has no
\* classroom_id (None).  On ws/dashboard/classroom/<id>/ it is the digits
\* of the route, written here as the number they spell.
AllRooms == 0

\* a dashboard socket not connected
NewDash ==
    [ state |-> "new", scope |-> AllRooms, seen |-> {}, got |-> "none",
      replies |-> <<>> ]

\* a dashboard socket that has disconnected
ClosedDash ==
    [ state |-> "closed", scope |-> AllRooms, seen |-> {}, got |-> "none",
      replies |-> <<>> ]

DashboardAll == <<"dashboard_all", 0>>

\* DashboardConsumer.connect lines 274-277
room_group_name(scope) ==
    IF scope # AllRooms THEN DashboardGroup(scope) ELSE DashboardAll

\* the global connection joining the group of every classroom row
dashboard_connect_EveryRow(G, A, d, scope) ==
    G \cup {<<room_group_name(scope), d>>}
      \cup (IF scope = AllRooms
            THEN {<<DashboardGroup(r.id), d>> : r \in ClassroomTable}
            ELSE {})

\* DashboardConsumer.connect lines 280-293: the groups afterwards, A being
\* the ids get_active_classrooms returns
dashboard_connect(G, A, d, scope) ==
    G \cup {<<room_group_name(scope), d>>}
      \cup (IF scope = AllRooms
            THEN {<<DashboardGroup(k), d>> : k \in A}
            ELSE {})

\* DashboardConsumer.disconnect: group_discard(self.room_group_name, ...)
dashboard_disconnect(G, d, scope) == G \ {<<room_group_name(scope), d>>}

\* the data of the fallback initial_data message (connect lines 306-309)
EmptyData ==
    [ classrooms |-> {},
      stats |-> [total_today |-> 0, active |-> 0, completed |-> 0,
                 invalid |-> 0] ]

\* get_dashboard_data: the ids of the classrooms listed and the stats
get_dashboard_data(S, A, scope, clock) ==
    LET today == {i \in 1..Len(S) : S[i].date = DateOf(clock)}
    IN  [ classrooms |-> {k \in A : scope = AllRooms \/ k = scope},
          stats |-> [ total_today |-> Cardinality(today),
                      active |-> Cardinality({i \in 1..Len(S) : S[i].status = "IN"}),
                      completed |-> Cardinality({i \in today : S[i].status = "AUTO_OUT"}),
                      invalid |-> Cardinality({i \in today : S[i].status = "INVALID"}) ] ]

InitialData(data) == [type |-> "initial_data", data |-> data]

\* what a dashboard connection writes to its socket for an event of one of
\* its groups: attendance_event, power_update, auto_timeout_event
DashMessage(scope, e) ==
    IF e.type = "attendance_event"
    THEN [ type |-> "attendance", event |-> e.data.event, data |-> e.data,
           classroom_id |-> AllRooms, watts |-> 0, timestamp |-> NoTime ]
    ELSE IF e.type = "power_update"
    THEN [ type |-> "power", event |-> "none", data |-> NoResult,
           classroom_id |-> scope, watts |-> e.watts,
           timestamp |-> e.timestamp ]
    ELSE [ type |-> "auto_timeout", event |-> "none", data |-> e.data,
           classroom_id |-> AllRooms, watts |-> 0, timestamp |-> NoTime ]

\* the channel layer and the consumer's handlers: what socket d is sent for
\* the events published, D and G being the sockets and the groups at the
\* time of group_send
Deliver(D, G, d, events) ==
    IF D[d].state # "open" THEN <<>>
    ELSE LET mine == SelectSeq(events, LAMBDA e : <<e.group, d>> \in G)
         IN  [i \in 1..Len(mine) |-> DashMessage(D[d].scope, mine[i])]

\* text frames a dashboard may send: {"action": "refresh"}, another JSON
\* object, text that is not JSON, JSON that is not an object ([], 1, null)
DashTexts == {"refresh", "other", "malformed", "not_object"}

\* DashboardConsumer.receive on a connection `rec`: only JSONDecodeError is
\* caught, so data.get on a list, number or null (AttributeError) and a
\* failing get_dashboard_data end the consumer
dashboard_receive(rec, text, fault, data) ==
    IF text = "malformed" THEN [rec EXCEPT !.got = text, !.replies = <<>>]
    ELSE IF text = "not_object"
    THEN [rec EXCEPT !.state = "crashed", !.got = text, !.replies = <<>>]
    ELSE IF text = "refresh"
    THEN IF fault
         THEN [rec EXCEPT !.state = "crashed", !.got = text, !.replies = <<>>]
         ELSE [rec EXCEPT !.got = text, !.replies = <<InitialData(data)>>]
    ELSE [rec EXCEPT !.got = text, !.replies = <<>>]

\* no scheduler run yet
NoRun == [impl |-> "none", found |-> {}, failed |-> 0, kind |-> "none",
          completed |-> TRUE]

\* no dashboard, the classrooms active as the Classroom table has them
InitBoard ==
    /\ active = {r.id : r \in {x \in ClassroomTable : x.is_active}}
    /\ dash = [d \in Dashboards |-> NewDash]
    /\ ran = NoRun

InitCommon ==
    /\ sessions = <<>>
    /\ \E k \in Classrooms : conn = [c \in Conns |-> IF c = "dev1" THEN Idle(1) ELSE Idle(k)]
    /\ now = Combine(0, 470)
    /\ task = <<>>
    /\ sweep = IdleSweep
    /\ sent = <<>>
    /\ writes = <<>>
    /\ link = [c \in Conns |-> OpenLink(conn[c].classroom)]
    /\ groups = {<<IotGroup(conn[c].classroom), c>> : c \in Conns}
    /\ energy = <<>>
    /\ handled = NoHandled
    /\ InitBoard

Init ==
    /\ schedules = SchedulesById({1, 5})
    /\ InitCommon

InitScan ==
    /\ schedules \in ScheduleConfigs
    /\ InitCommon

\* the table and the per-row bookkeeping after an insert
Inserted(S) ==
    /\ sessions' = S
    /\ task' = Append(task, NoTask)
    /\ sent' = Append(sent, 0)
    /\ writes' = Append(writes, 0)

----------------------------------------------------------------------------
(* Device gateway: one scan, step by step *)

InFlight == {c \in Conns : conn[c].pc = "checked"}

\* receive() up to the duplicate check of process_rfid: one read of the
\* session table
Receive(c, rfid_uid, ts) ==
    /\ conn[c].pc = "idle"
    /\ LET chk == CheckScan(sessions, conn[c].classroom, rfid_uid, ts)
       IN  /\ chk.result = NoResult =>
                 Len(sessions) + Cardinality(InFlight) < MaxSessions
           /\ conn' = [conn EXCEPT ![c] =
                 [@ EXCEPT !.pc = IF chk.result = NoResult THEN "checked" ELSE "done",
                           !.rfid_uid = rfid_uid,
                           !.timestamp = IF chk.result = NoResult THEN ts ELSE 0,
                           !.today = DateOf(ts),
                           !.teacher = chk.teacher,
                           !.result = chk.result]]
    /\ UNCHANGED <<board, ran, gateway, schedules, sessions, now, task, sweep, sent, writes>>

\* the schedule lookups and the insert of process_rfid
Create(c) ==
    /\ conn[c].pc = "checked"
    /\ LET out == CreateSession(sessions, schedules, conn[c].teacher,
                                conn[c].classroom, conn[c].rfid_uid,
                                conn[c].timestamp)
       IN  /\ Inserted(out.sessions)
           /\ conn' = [conn EXCEPT ![c] = [@ EXCEPT !.pc = "done",
                                                    !.timestamp = 0,
                                                    !.result = out.result]]
    /\ UNCHANGED <<board, ran, gateway, schedules, now, sweep>>

\* receive() after process_rfid returned: the event is published and the
\* acknowledgment sent; the handler is ready for the next message
Reply(c) ==
    /\ conn[c].pc = "done"
    /\ conn' = [conn EXCEPT ![c] = Idle(conn[c].classroom)]
    /\ UNCHANGED <<board, ran, gateway, schedules, sessions, now, task, sweep, sent, writes>>

\* one scan handled without interruption
Scan(c, rfid_uid, ts) ==
    /\ \A d \in Conns : conn[d].pc = "idle"
    /\ LET out == process_rfid(sessions, schedules, conn[c].classroom, rfid_uid, ts)
       IN  /\ Len(out.sessions) <= MaxRows
           /\ IF out.sessions # sessions
              THEN Inserted(out.sessions)
              ELSE UNCHANGED <<sessions, task, sent, writes>>
           /\ conn' = [conn EXCEPT ![c] =
                 [@ EXCEPT !.pc = "done", !.rfid_uid = rfid_uid,
                           !.today = DateOf(ts),
                           !.teacher = out.result.teacher,
                           !.result = out.result]]
    /\ UNCHANGED <<board, ran, gateway, schedules, now, sweep>>

\* one scan handled and answered without interruption
Swipe(c, rfid_uid, ts) ==
    /\ \A d \in Conns : conn[d].pc = "idle"
    /\ LET out == process_rfid(sessions, schedules, conn[c].classroom, rfid_uid, ts)
       IN  /\ Len(out.sessions) <= MaxSessions
           /\ IF out.sessions # sessions
              THEN Inserted(out.sessions)
              ELSE UNCHANGED <<sessions, task, sent, writes>>
    /\ UNCHANGED <<board, ran, gateway, schedules, conn, now, sweep>>

----------------------------------------------------------------------------
(* Device gateway: handshake and whole frames *)

\* IoTConsumer.connect on a fresh socket
Connect(c, classroom_id, query) ==
    /\ link[c].state = "new"
    /\ LET out == connect(groups, c, classroom_id, query)
       IN  /\ link' = [link EXCEPT ![c] = out.link]
           /\ groups' = out.groups
    /\ conn' = [conn EXCEPT ![c] = Idle(classroom_id)]
    /\ UNCHANGED <<schedules, sessions, now, task, sweep, sent, writes,
                   energy, handled, board, ran>>

\* IoTConsumer.disconnect: the socket is gone (after an accept or after the
\* refusal), the channel leaves its device group; the slot is free again
Disconnect(c) ==
    /\ link[c].state \in {"open", "closed"}
    /\ conn[c].pc = "idle"
    /\ handled.conn # c
    /\ groups' = groups \ {<<IotGroup(link[c].classroom_id), c>>}
    /\ link' = [link EXCEPT ![c] = NewLink]
    /\ UNCHANGED <<schedules, sessions, conn, now, task, sweep, sent, writes,
                   energy, handled, board, ran>>

\* no handler's output is waiting to be looked at
Quiet == handled = NoHandled /\ \A d \in Dashboards : dash[d].got = "none"

\* IoTConsumer.receive, the whole handler on one frame of an accepted
\* connection (no frame reaches receive() on a socket that was not accepted)
Handle(c, msg, fault) ==
    /\ link[c].state = "open"
    /\ \A d \in Conns : conn[d].pc = "idle"
    /\ Quiet
    /\ LET out == receive(sessions, energy, schedules, now, conn[c].classroom,
                          msg, fault)
       IN  /\ Len(out.sessions) <= MaxRows
           /\ Len(out.energy) <= MaxEnergy
           /\ IF out.sessions # sessions
              THEN Inserted(out.sessions)
              ELSE UNCHANGED <<sessions, task, sent, writes>>
           /\ energy' = out.energy
           /\ handled' = [conn |-> c, msg |-> msg, fault |-> fault,
                          events |-> out.events, acks |-> out.acks,
                          steps |-> out.steps,
                          delivered |-> [d \in Dashboards |->
                                          Deliver(dash, groups, d, out.events)]]
    /\ UNCHANGED <<schedules, conn, now, sweep, link, groups, board, ran>>

\* a frame handled while the store works
Frame(c, msg) == Handle(c, msg, FALSE)

\* a frame with a tag handled while a query of process_rfid raises
FrameFault(c, msg) == HasTag(msg) /\ Handle(c, msg, TRUE)

\* the handler has returned: its replies and its events are on their way
Return ==
    /\ ~Quiet
    /\ handled' = NoHandled
    /\ dash' = [d \in Dashboards |->
                  [dash[d] EXCEPT !.got = "none", !.replies = <<>>]]
    /\ UNCHANGED <<schedules, sessions, conn, now, task, sweep, sent, writes,
                   link, groups, energy, active, ran>>

----------------------------------------------------------------------------
(* Dashboard sockets *)

\* DashboardConsumer.connect on a fresh socket with the route's scope;
\* `fault` is get_dashboard_data raising
DashConnect(d, scope, fault) ==
    /\ Quiet
    /\ dash[d].state = "new"
    /\ groups' = dashboard_connect(groups, active, d, scope)
    /\ dash' = [dash EXCEPT ![d] =
          [ state |-> "open", scope |-> scope, seen |-> active,
            got |-> "connect",
            replies |-> <<InitialData(
                            IF fault THEN EmptyData
                            ELSE get_dashboard_data(sessions, active, scope, now))>> ]]
    /\ UNCHANGED <<schedules, sessions, conn, now, task, sweep, sent, writes,
                   link, energy, handled, active, ran>>

\* DashboardConsumer.disconnect; the channel name is not used again
DashDisconnect(d) ==
    /\ Quiet
    /\ dash[d].state = "open"
    /\ groups' = dashboard_disconnect(groups, d, dash[d].scope)
    /\ dash' = [dash EXCEPT ![d] = ClosedDash]
    /\ UNCHANGED <<schedules, sessions, conn, now, task, sweep, sent, writes,
                   link, energy, handled, active, ran>>

\* DashboardConsumer.receive on one text frame
DashReceive(d, text, fault) ==
    /\ Quiet
    /\ dash[d].state = "open"
    /\ fault => text = "refresh"
    /\ dash' = [dash EXCEPT ![d] =
          dashboard_receive(dash[d], text, fault,
             get_dashboard_data(sessions, active, dash[d].scope, now))]
    /\ UNCHANGED <<schedules, sessions, conn, now, task, sweep, sent, writes,
                   link, groups, energy, handled, active, ran>>

\* ClassroomViewSet update: is_active of classroom k is set
SetActive(k, flag) ==
    /\ Quiet
    /\ active' = IF flag THEN active \cup {k} ELSE active \ {k}
    /\ active' # active
    /\ UNCHANGED <<schedules, sessions, conn, now, task, sweep, sent, writes,
                   link, groups, energy, handled, dash, ran>>

----------------------------------------------------------------------------
(* Timeout scheduler *)

\* schedule_session_timeout(session): nothing in the repository calls it;
\* any caller may, once per session here
ScheduleSessionTimeout(id) ==
    /\ id \in 1..Len(sessions)
    /\ task[id].pc = "none"
    /\ sessions[id].expected_out # NoTime
    /\ task' = [task EXCEPT ![id] = [pc |-> "armed",
                                     eta |-> sessions[id].expected_out,
                                     row |-> NoRow,
                                     report |-> "none"]]
    /\ UNCHANGED <<board, ran, gateway, schedules, sessions, conn, now, sweep, sent, writes>>

\* timeout_session lines 31-36: the row is read; a row that is not IN ends
\* the task
TimeoutLoad(id) ==
    /\ id \in 1..Len(sessions)
    /\ task[id].pc = "armed"
    /\ now >= task[id].eta
    /\ task' = [task EXCEPT ![id] =
          IF TimeoutOutcome(sessions, id) = "loaded"
          THEN [@ EXCEPT !.pc = "loaded", !.row = sessions[id]]
          ELSE [@ EXCEPT !.pc = "done",
                         !.report = TimeoutOutcome(sessions, id)]]
    /\ UNCHANGED <<board, ran, gateway, schedules, sessions, conn, now, sweep, sent, writes>>

\* timeout_session lines 39-66: the loaded row is changed, saved and the
\* auto_timeout event published
TimeoutSave(id) ==
    /\ id \in 1..Len(sessions)
    /\ task[id].pc = "loaded"
    /\ sessions' = Save(sessions, id, TimeoutRow(task[id].row, now))
    /\ writes' = Bump(writes, id)
    /\ sent' = Bump(sent, id)
    /\ task' = [task EXCEPT ![id] = [@ EXCEPT !.pc = "done", !.row = NoRow,
                                              !.report = "timed_out"]]
    /\ UNCHANGED <<board, ran, gateway, schedules, conn, now, sweep>>

\* auto_timeout_sessions lines 109-120: the queryset is evaluated when the
\* loop starts
SweepQuery ==
    /\ sweep.pc = "idle"
    /\ LET rows == sessions_to_timeout(sessions, now)
       IN  sweep' = IF rows = <<>> THEN IdleSweep
                    ELSE [pc |-> "loop", pending |-> rows]
    /\ UNCHANGED <<board, ran, gateway, schedules, sessions, conn, now, task, sent, writes>>

\* auto_timeout_sessions lines 120-146: one turn of the loop
SweepStep ==
    /\ sweep.pc = "loop"
    /\ LET h == Head(sweep.pending)
       IN  /\ sessions' = Save(sessions, h.id, SweepRow(h.row))
           /\ writes' = Bump(writes, h.id)
           /\ sent' = Bump(sent, h.id)
    /\ sweep' = IF Len(sweep.pending) = 1 THEN IdleSweep
                ELSE [sweep EXCEPT !.pending = Tail(@)]
    /\ UNCHANGED <<board, ran, gateway, schedules, conn, now, task>>

RECURSIVE SweepAll(_, _, _, _)
\* the loop of auto_timeout_sessions run to its end over `rows`
SweepAll(S, W, B, rows) ==
    IF rows = <<>> THEN [sessions |-> S, writes |-> W, sent |-> B]
    ELSE LET h == Head(rows)
         IN  SweepAll(Save(S, h.id, SweepRow(h.row)), Bump(W, h.id),
                      Bump(B, h.id), Tail(rows))

\* auto_timeout_sessions run without interruption
auto_timeout_sessions ==
    /\ sweep.pc = "idle"
    /\ \A d \in Conns : conn[d].pc = "idle"
    /\ LET out == SweepAll(sessions, writes, sent,
                           sessions_to_timeout(sessions, now))
       IN  /\ sessions' = out.sessions
           /\ writes' = out.writes
           /\ sent' = out.sent
    /\ UNCHANGED <<board, ran, gateway, schedules, conn, now, task, sweep>>

\* no failure during a run
NoFault == [at |-> 0, kind |-> "none"]

\* the loop in which the management command saves and never publishes
RECURSIVE SweepLoop_CommandSilent(_, _, _, _, _, _)
SweepLoop_CommandSilent(S, W, B, rows, fault, impl) ==
    IF rows = <<>>
    THEN [sessions |-> S, writes |-> W, sent |-> B, completed |-> TRUE]
    ELSE LET h == Head(rows)
         IN  IF fault.at = h.id /\ fault.kind = "save"
             THEN [sessions |-> S, writes |-> W, sent |-> B, completed |-> FALSE]
             ELSE SweepLoop_CommandSilent(
                      Save(S, h.id, SweepRow(h.row)), Bump(W, h.id),
                      IF impl = "task" /\ fault.at # h.id
                      THEN Bump(B, h.id) ELSE B,
                      Tail(rows), fault, impl)

\* the loop of a sweep over `rows` during which the step named by `fault`
\* raises.  session.save() is guarded in neither implementation: the
\* exception leaves the loop and the run.  group_send is inside try/except
\* in the Celery task (lines 127-143: the row is saved, the event lost, the
\* loop goes on) and bare in the management command (lines 35-49: the run
\* ends after the save).
RECURSIVE SweepLoop(_, _, _, _, _, _)
SweepLoop(S, W, B, rows, fault, impl) ==
    IF rows = <<>>
    THEN [sessions |-> S, writes |-> W, sent |-> B, completed |-> TRUE]
    ELSE LET h == Head(rows)
         IN  IF fault.at = h.id /\ fault.kind = "save"
             THEN [sessions |-> S, writes |-> W, sent |-> B, completed |-> FALSE]
             ELSE IF fault.at = h.id /\ fault.kind = "broadcast"
             THEN IF impl = "task"
                  THEN SweepLoop(Save(S, h.id, SweepRow(h.row)), Bump(W, h.id),
                                 B, Tail(rows), fault, impl)
                  ELSE [sessions |-> Save(S, h.id, SweepRow(h.row)),
                        writes |-> Bump(W, h.id), sent |-> B,
                        completed |-> FALSE]
             ELSE SweepLoop(Save(S, h.id, SweepRow(h.row)), Bump(W, h.id),
                            Bump(B, h.id), Tail(rows), fault, impl)

\* the two implementations of the sweep
Impls == {"task", "command"}

\* the event a sweep publishes for a session it has saved (tasks.py lines
\* 128-141, auto_timeout_task.py lines 35-48: the same group and payload)
AutoTimeoutEvent(id, row) ==
    Event(DashboardGroup(row.classroom), "auto_timeout_event",
          [session_id |-> id, teacher |-> row.teacher,
           classroom |-> row.classroom, time_out |-> SweepRow(row).time_out],
          0, NoTime)

\* the events a run over `rows` publishes, in order: none for a session
\* whose save or publish raised, none after the run has ended
RECURSIVE SweepEvents(_, _, _)
SweepEvents(rows, fault, impl) ==
    IF rows = <<>> THEN <<>>
    ELSE LET h == Head(rows)
         IN  IF fault.at = h.id /\ fault.kind = "save" THEN <<>>
             ELSE IF fault.at = h.id /\ fault.kind = "broadcast"
             THEN IF impl = "task"
                  THEN SweepEvents(Tail(rows), fault, impl)
                  ELSE <<>>
             ELSE <<AutoTimeoutEvent(h.id, h.row)>>
                  \o SweepEvents(Tail(rows), fault, impl)

\* failures a run may meet: the save or the publish for one session
Faults ==
    {NoFault} \cup
    {[at |-> id, kind |-> k] : id \in 1..MaxSessions, k \in {"save", "broadcast"}}

\* one uninterrupted run of auto_timeout_sessions (impl "task") or of the
\* auto_timeout_task command (impl "command"), with what it found and how
\* it ended
Sweep(impl, fault) ==
    /\ sweep.pc = "idle"
    /\ \A d \in Conns : conn[d].pc = "idle"
    /\ LET rows == sessions_to_timeout(sessions, now)
           out  == SweepLoop(sessions, writes, sent, rows, fault, impl)
       IN  /\ fault = NoFault \/ \E i \in 1..Len(rows) : rows[i].id = fault.at
           /\ sessions' = out.sessions
           /\ writes' = out.writes
           /\ sent' = out.sent
           /\ ran' = [impl |-> impl,
                      found |-> {rows[i].id : i \in 1..Len(rows)},
                      failed |-> fault.at, kind |-> fault.kind,
                      completed |-> out.completed]
    /\ UNCHANGED <<board, gateway, schedules, conn, now, task, sweep>>

\* days after which cleanup_old_sessions calls a session old
CleanupDays == 30

\* the rows cleanup_old_sessions counts: date < (now - 30 days).date()
OldSessions(S, clock) ==
    {i \in 1..Len(S) : S[i].date < (clock - CleanupDays * DayMinutes) \div DayMinutes}

\* the cleanup deleting what it counted
AfterCleanup_Delete(S, clock) ==
    SelectSeq(S, LAMBDA r : ~(r.date < (clock - CleanupDays * DayMinutes) \div DayMinutes))

\* the table after cleanup_old_sessions: the queryset is only counted
AfterCleanup(S, clock) == S

\* cleanup_old_sessions
cleanup_old_sessions ==
    /\ sessions' = AfterCleanup(sessions, now)
    /\ ran' = [impl |-> "cleanup", found |-> OldSessions(sessions, now),
               failed |-> 0, kind |-> "none", completed |-> TRUE]
    /\ UNCHANGED <<board, gateway, schedules, conn, now, task, sweep, sent, writes>>

\* instants the server clock passes through where the cleanup runs: Monday
\* 09:05 and the same time 31 days later
SweepInstants == {545, 31 * DayMinutes + 545}

\* the server clock moves on to one of them
Later ==
    /\ \E t \in SweepInstants : t > now /\ now' = t
    /\ UNCHANGED <<board, ran, gateway, schedules, sessions, conn, task, sweep,
                   sent, writes>>

\* the server clock moves on
Tick ==
    /\ \E t \in ClockInstants : t > now /\ now' = t
    /\ UNCHANGED <<board, ran, gateway, schedules, sessions, conn, task, sweep, sent, writes>>

----------------------------------------------------------------------------
(* Specifications *)

RaceInstants == {Combine(0, t) : t \in RaceTimes}
ScanInstants == {Combine(d, t) : d \in Dates, t \in ScanTimes}

\* concurrent connections, the one-shot task and the sweep, query by query
Next ==
    \/ \E c \in Conns, u \in RaceTags, ts \in RaceInstants : Receive(c, u, ts)
    \/ \E c \in Conns : Create(c)
    \/ \E c \in Conns : Reply(c)
    \/ \E id \in 1..MaxSessions : ScheduleSessionTimeout(id)
    \/ \E id \in 1..MaxSessions : TimeoutLoad(id)
    \/ \E id \in 1..MaxSessions : TimeoutSave(id)
    \/ SweepQuery
    \/ SweepStep
    \/ Tick

Spec == Init /\ [][Next]_vars

\* the same, with the periodic sweep kept running and the clock advancing
LiveSpec ==
    /\ Spec
    /\ WF_vars(SweepQuery)
    /\ WF_vars(SweepStep)
    /\ WF_vars(Tick)

\* scans handled one at a time, over every tag, time of day and schedule table
NextScan ==
    \/ \E c \in Conns, u \in Tags, ts \in ScanInstants : Scan(c, u, ts)
    \/ \E c \in Conns : Reply(c)
    \/ auto_timeout_sessions
    \/ Tick

SpecScan == InitScan /\ [][NextScan]_vars

\* the schedule match alone: tables with entries that overlap and entries
\* that start within a quarter of an hour of each other, one teacher's scans
\* before, between and inside them
MatchConfigs == {SchedulesById(ids) : ids \in SUBSET {1, 6, 7}}
MatchTimes == {478, 485, 520, 700}

InitMatch ==
    /\ schedules \in MatchConfigs
    /\ InitCommon

NextMatch ==
    \/ \E c \in Conns, t \in MatchTimes : Scan(c, "A1B2", Combine(0, t))
    \/ \E c \in Conns : Reply(c)

SpecMatch == InitMatch /\ [][NextMatch]_vars

\* two teachers with a class each, whole scans, the one-shot task, whole
\* runs of either sweep with or without a failure, the cleanup
SweepTags == {"A1B2", "C3D4"}

\* every scan of this specification is stamped Monday 07:50
SwipeInstants == {Combine(0, 470)}

InitSweep ==
    /\ schedules = SchedulesById({1, 4})
    /\ InitCommon

NextSweep ==
    \/ \E c \in Conns, u \in SweepTags, ts \in SwipeInstants : Swipe(c, u, ts)
    \/ \E id \in 1..MaxSessions : ScheduleSessionTimeout(id)
    \/ \E id \in 1..MaxSessions : TimeoutLoad(id)
    \/ \E id \in 1..MaxSessions : TimeoutSave(id)
    \/ \E impl \in Impls, fault \in Faults : Sweep(impl, fault)
    \/ cleanup_old_sessions
    \/ Later

SpecSweep == InitSweep /\ [][NextSweep]_vars

\* whole frames on two accepted connections, one per classroom, at a server
\* time before or after the scheduled class
GatewayInstants == {Combine(0, 470), Combine(0, 545)}

InitGateway ==
    /\ schedules = SchedulesById({1, 5})
    /\ sessions = <<>>
    /\ conn = [c \in Conns |-> IF c = "dev1" THEN Idle(1) ELSE Idle(2)]
    /\ now \in GatewayInstants
    /\ task = <<>>
    /\ sweep = IdleSweep
    /\ sent = <<>>
    /\ writes = <<>>
    /\ link = [c \in Conns |-> OpenLink(conn[c].classroom)]
    /\ groups = {<<IotGroup(conn[c].classroom), c>> : c \in Conns}
    /\ energy = <<>>
    /\ handled = NoHandled
    /\ InitBoard

NextGateway ==
    \/ \E c \in Conns, msg \in Frames : Frame(c, msg)
    \/ \E c \in Conns, msg \in Frames : FrameFault(c, msg)
    \/ Return

SpecGateway == InitGateway /\ [][NextGateway]_vars

\* values of the payload key device_id: left out, the device_id of each
\* classroom, and one no classroom has
DeviceIds == {"", "esp-1", "esp-2", "esp-9"}

\* frames naming a device: a scan, a reading, and both together
DeviceFrames ==
    { From(Message("object", r[1], r[2], p[1], p[2], FALSE, ""), d) :
        r \in {<<FALSE, "">>, <<TRUE, "A1B2">>},
        p \in FramePowers, d \in DeviceIds }

\* two devices, each free to name any device in its payload
NextDevice ==
    \/ \E c \in Conns, msg \in DeviceFrames : Frame(c, msg)
    \/ \E c \in Conns, msg \in DeviceFrames : FrameFault(c, msg)
    \/ Return

SpecDevice == InitGateway /\ [][NextDevice]_vars

\* dashboards connecting, refreshing and leaving while two devices report
\* and classroom 2 is switched off and on
DashRoutes == {AllRooms, 1, 2}
ToggledRooms == {2}
DashFrames ==
    { Message("object", TRUE, "A1B2", TRUE, 60, FALSE, ""),
      Message("object", FALSE, "", TRUE, 60, FALSE, "") }

NextDashboard ==
    \/ \E d \in Dashboards, k \in DashRoutes, f \in BOOLEAN : DashConnect(d, k, f)
    \/ \E d \in Dashboards : DashDisconnect(d)
    \/ \E d \in Dashboards, t \in DashTexts, f \in BOOLEAN : DashReceive(d, t, f)
    \/ \E k \in ToggledRooms, f \in BOOLEAN : SetActive(k, f)
    \/ \E c \in Conns, msg \in DashFrames : Frame(c, msg)
    \/ Return

SpecDashboard == InitGateway /\ [][NextDashboard]_vars

\* power readings only
NextEnergy ==
    \/ \E c \in Conns, msg \in EnergyFrames : Frame(c, msg)
    \/ Return

SpecEnergy == InitGateway /\ [][NextEnergy]_vars

\* sockets opening and closing, with a few frames on the accepted ones
InitHandshake ==
    /\ schedules = SchedulesById({1, 5})
    /\ sessions = <<>>
    /\ conn = [c \in Conns |-> Idle(1)]
    /\ now = Combine(0, 470)
    /\ task = <<>>
    /\ sweep = IdleSweep
    /\ sent = <<>>
    /\ writes = <<>>
    /\ link = [c \in Conns |-> IF c = "dev1" THEN OpenLink(1) ELSE NewLink]
    /\ groups = {<<IotGroup(1), "dev1">>}
    /\ energy = <<>>
    /\ handled = NoHandled
    /\ InitBoard

NextHandshake ==
    \/ \E c \in Conns, k \in RouteIds, q \in QueryStrings : Connect(c, k, q)
    \/ \E c \in Conns : Disconnect(c)
    \/ \E c \in Conns, msg \in HandshakeFrames : Frame(c, msg)
    \/ Return

SpecHandshake == InitHandshake /\ [][NextHandshake]_vars

\* devices and dashboards coming and going, frames on the accepted devices
GroupRoutes == {1, 2}
GroupQueries == {<<Part("token", "tok1")>>, <<Part("token", "tok2")>>}

NextGroups ==
    \/ \E c \in Conns, k \in GroupRoutes, q \in GroupQueries : Connect(c, k, q)
    \/ \E c \in Conns : Disconnect(c)
    \/ \E d \in Dashboards, k \in DashRoutes : DashConnect(d, k, FALSE)
    \/ \E d \in Dashboards : DashDisconnect(d)
    \/ \E c \in Conns, msg \in HandshakeFrames : Frame(c, msg)
    \/ Return

SpecGroups == InitHandshake /\ [][NextGroups]_vars

----------------------------------------------------------------------------
(* Claims *)

Ids == 1..Len(sessions)

SameKey(a, b) ==
    a.teacher = b.teacher /\ a.classroom = b.classroom /\ a.date = b.date

\* C1: for every teacher, classroom and date at most one session of that key
\* has status IN, in every reachable state, concurrent scans included.
C1_AtMostOneActiveSession ==
    \A i, j \in Ids :
        (i # j /\ SameKey(sessions[i], sessions[j]) /\ sessions[i].status = "IN")
            => sessions[j].status # "IN"

\* C2: the IN -> AUTO_OUT write to a session is performed exactly one time,
\* whichever of the one-shot task and the sweep fire for it: never twice.
C2_TimeoutWrittenOnce == \A id \in Ids : writes[id] <= 1

\* C3: at most one auto_timeout event is ever published for a session.
C3_AutoTimeoutBroadcastOnce == \A id \in Ids : sent[id] <= 1

\* C4: a timeout path writes a session only if its stored status is IN at
\* the moment of the write.
C4_TimeoutWriteOnlyWhenIn ==
    [][\A id \in Ids : writes'[id] > writes[id] => sessions[id].status = "IN"]_vars

\* C5: a scan that created a session with status IN and expected-out set has
\* armed a timeout_session task for it when process_rfid returns, and no task
\* is armed for an INVALID session.
C5_ScanArmsTimeout ==
    \A c \in Conns :
        conn[c].pc = "done" =>
            /\ conn[c].result.event = "attendance_in" =>
                   task[conn[c].result.session_id].pc # "none"
            /\ conn[c].result.event = "attendance_invalid" =>
                   task[conn[c].result.session_id].pc = "none"

\* C6: with the sweep kept running and the clock advancing, every session
\* that is IN with expected-out set eventually is AUTO_OUT, whatever happens
\* to its one-shot task.
C6_SweepEventuallyTimesOut ==
    \A id \in 1..MaxSessions :
        (id \in Ids /\ sessions[id].status = "IN" /\ sessions[id].expected_out # NoTime)
            ~> (id \in Ids /\ sessions[id].status = "AUTO_OUT")

\* a session the sweep closed although no one-shot task was ever armed for it
C6_Witness ==
    \E id \in Ids :
        /\ sessions[id].status = "AUTO_OUT"
        /\ task[id].pc = "none"
        /\ now >= sessions[id].expected_out

\* the step in which connection c's scan runs up to its first return or
\* to the insert
ScanStep(c) == conn[c].pc = "idle" /\ conn'[c].pc # "idle"

\* an active teacher owns the tag
KnownTag(rfid_uid) ==
    \E u \in Users : u.rfid_uid = rfid_uid /\ u.role = "teacher" /\ u.is_active

\* the active teacher who owns the tag
Owner(rfid_uid) ==
    (CHOOSE u \in Users :
        u.rfid_uid = rfid_uid /\ u.role = "teacher" /\ u.is_active).id

\* C7: a scan by teacher T in classroom C on date D while a session of
\* (T, C, D) is IN yields attendance_duplicate and leaves the session table
\* as it was.
C7_DuplicateScanNoMutation ==
    [][\A c \in Conns :
          ( /\ ScanStep(c)
            /\ KnownTag(conn'[c].rfid_uid)
            /\ \E i \in Ids :
                  /\ sessions[i].teacher = Owner(conn'[c].rfid_uid)
                  /\ sessions[i].classroom = conn[c].classroom
                  /\ sessions[i].date = conn'[c].today
                  /\ sessions[i].status = "IN" )
          => /\ conn'[c].pc = "done"
             /\ conn'[c].result.event = "attendance_duplicate"
             /\ sessions' = sessions]_vars

\* a duplicate scan was answered while the first session is still IN
C7_Witness ==
    \E c \in Conns :
        /\ conn[c].pc = "done"
        /\ conn[c].result.event = "attendance_duplicate"
        /\ \E i \in Ids : /\ sessions[i].status = "IN"
                          /\ sessions[i].teacher = conn[c].result.teacher
                          /\ sessions[i].classroom = conn[c].classroom
                          /\ sessions[i].date = conn[c].today

\* C8: a scan whose tag no active teacher owns yields attendance_error
\* carrying the raw tag and creates no session row.
C8_UnknownTagError ==
    [][\A c \in Conns :
          (ScanStep(c) /\ ~KnownTag(conn'[c].rfid_uid))
          => /\ conn'[c].pc = "done"
             /\ conn'[c].result.event = "attendance_error"
             /\ conn'[c].result.rfid_uid = conn'[c].rfid_uid
             /\ sessions' = sessions]_vars

\* the tag of an inactive teacher was answered with attendance_error
C8_Witness ==
    \E c \in Conns :
        /\ conn[c].pc = "done"
        /\ conn[c].rfid_uid = "E5F6"
        /\ conn[c].result.event = "attendance_error"

\* the row a finished scan of connection c created, if it created one
Created(c) ==
    /\ conn[c].pc = "done"
    /\ conn[c].result.event \in {"attendance_in", "attendance_invalid"}

\* the schedule entries of the row's teacher, classroom and weekday
EntriesFor(row) ==
    {e \in schedules : /\ e.teacher = row.teacher
                       /\ e.classroom = row.classroom
                       /\ e.day_of_week = row.date % 7}

\* C9 as stated: if an entry of (teacher, classroom, weekday) has
\* start <= t <= end, the created session is IN with expected-out the scan
\* date combined with that entry's end time, and the event is attendance_in.
C9_EveryContainingEntry ==
    \A c \in Conns :
        Created(c) =>
            LET row == sessions[conn[c].result.session_id]
                t   == row.time_in - row.date * 1440
            IN  \A e \in EntriesFor(row) :
                    (e.start_time <= t /\ t <= e.end_time)
                    => /\ conn[c].result.event = "attendance_in"
                       /\ conn[c].result.status = "IN"
                       /\ conn[c].result.expected_out = row.date * 1440 + e.end_time

\* C9 amended: with an entry containing t, the created session is IN, the
\* event is attendance_in, and expected-out is the scan date combined with
\* the end time of the containing entry that starts earliest.
C9_EarliestContainingEntry ==
    \A c \in Conns :
        Created(c) =>
            LET row == sessions[conn[c].result.session_id]
                t   == row.time_in - row.date * 1440
                inside == {e \in EntriesFor(row) : e.start_time <= t /\ t <= e.end_time}
            IN  \A e \in inside :
                    /\ conn[c].result.event = "attendance_in"
                    /\ conn[c].result.status = "IN"
                    /\ row.status = "IN"
                    /\ (\A o \in inside : e.start_time <= o.start_time)
                       => /\ conn[c].result.expected_out = row.date * 1440 + e.end_time
                          /\ row.expected_out = row.date * 1440 + e.end_time

\* a scan inside two overlapping windows created a session
C9_Witness ==
    \E c \in Conns :
        /\ Created(c)
        /\ LET row == sessions[conn[c].result.session_id]
               t   == row.time_in - row.date * 1440
           IN  Cardinality({e \in EntriesFor(row) :
                               e.start_time <= t /\ t <= e.end_time}) > 1

\* C10: when no entry's window contains the scan time t, the scan yields IN
\* if some entry of (teacher, classroom, weekday) starts between 0 and 15
\* minutes after t, and INVALID if every entry starts more than 15 minutes
\* after t; times in the last 15 minutes before midnight included.
C10_GraceWindow ==
    \A c \in Conns :
        Created(c) =>
            LET row == sessions[conn[c].result.session_id]
                t   == row.time_in - row.date * 1440
                E   == EntriesFor(row)
            IN  (\A e \in E : ~(e.start_time <= t /\ t <= e.end_time))
                => /\ (\E e \in E : t <= e.start_time /\ e.start_time <= t + 15)
                         => conn[c].result.status = "IN"
                   /\ (\A e \in E : e.start_time > t + 15)
                         => conn[c].result.status = "INVALID"

\* the step in which connection c's scan inserts its row
CreateStep(c) == conn[c].pc = "checked" /\ conn'[c].pc = "done"

\* no entry of (teacher, classroom, weekday of ts) contains the time of day
\* of ts or starts within the 15 minutes after it
NoEntryMatches(teacher, classroom, ts) ==
    LET t == ts % 1440
    IN  \A e \in schedules :
            (e.teacher = teacher /\ e.classroom = classroom
                /\ e.day_of_week = (ts \div 1440) % 7)
            => /\ ~(e.start_time <= t /\ t <= e.end_time)
               /\ ~(t <= e.start_time /\ e.start_time <= t + 15)

\* C11: a non-duplicate scan by a known teacher that matches no schedule
\* entry creates exactly one session, INVALID with expected-out unset and no
\* task armed; no step of the one-shot task or the sweep changes an INVALID
\* session or arms a task for it.
C11_InvalidSessionStays ==
    /\ [][\A c \in Conns :
            (CreateStep(c) /\ NoEntryMatches(conn[c].teacher, conn[c].classroom,
                                             conn[c].timestamp))
            => /\ Len(sessions') = Len(sessions) + 1
               /\ sessions'[Len(sessions')].status = "INVALID"
               /\ sessions'[Len(sessions')].expected_out = -1
               /\ sessions'[Len(sessions')].teacher = conn[c].teacher
               /\ conn'[c].result.event = "attendance_invalid"
               /\ task'[Len(sessions')].pc = "none"]_vars
    /\ [][\A id \in Ids :
            sessions[id].status = "INVALID"
            => /\ sessions'[id] = sessions[id]
               /\ task'[id].pc = "none"
               /\ sent'[id] = 0]_vars

\* an INVALID session that a sweep has passed over after the clock moved on
C11_Witness ==
    \E id \in Ids :
        /\ sessions[id].status = "INVALID"
        /\ sessions[id].expected_out = -1
        /\ now > sessions[id].time_in
        /\ \E o \in Ids : sessions[o].status = "AUTO_OUT"

\* C12: the only status change is IN -> AUTO_OUT; a session that is AUTO_OUT
\* or INVALID never changes again; teacher, classroom, date, time-in and
\* expected-out of a session never change.
C12_SessionLifecycle ==
    [][\A id \in Ids :
          /\ sessions'[id].status # sessions[id].status
             => (sessions[id].status = "IN" /\ sessions'[id].status = "AUTO_OUT")
          /\ sessions[id].status \in {"AUTO_OUT", "INVALID"}
             => sessions'[id] = sessions[id]
          /\ sessions'[id].teacher = sessions[id].teacher
          /\ sessions'[id].classroom = sessions[id].classroom
          /\ sessions'[id].date = sessions[id].date
          /\ sessions'[id].time_in = sessions[id].time_in
          /\ sessions'[id].expected_out = sessions[id].expected_out]_vars

\* a session both timeout paths have written: the second write met a row
\* that was already AUTO_OUT
C12_Witness ==
    \E id \in Ids : sessions[id].status = "AUTO_OUT" /\ writes[id] = 2

\* C13: a timeout_session run that reads a session that is not IN, or finds
\* no row, changes no stored field, publishes nothing and returns normally.
C13_StaleTimeoutNoOp ==
    /\ [](\A id \in 1..(MaxSessions + 1) :
             TimeoutOutcome(sessions, id) = "loaded"
             => (id \in Ids /\ sessions[id].status = "IN"))
    /\ [][\A id \in Ids :
            (task[id].pc = "armed" /\ task'[id].pc # "armed"
                /\ sessions[id].status # "IN")
            => /\ task'[id].pc = "done"
               /\ task'[id].report = "skipped"
               /\ sessions' = sessions
               /\ sent' = sent
               /\ writes' = writes]_vars

\* a one-shot task that fired after the sweep had closed its session
C13_Witness ==
    \E id \in Ids :
        /\ task[id].report = "skipped"
        /\ sessions[id].status = "AUTO_OUT"
        /\ writes[id] = 1

\* the token a query string supplies: the value of its last token=...
\* part, the empty string when it has none
Supplied(query) ==
    LET at == {i \in 1..Len(query) : query[i].eq /\ query[i].key = "token"}
    IN  IF at = {} THEN ""
        ELSE query[CHOOSE i \in at : \A j \in at : j <= i].value

\* C14: a device connection is accepted exactly when the classroom of its
\* route exists, is active and stores the token the query string supplies
\* (none supplied counts as ""); otherwise it is closed with code 4003.
C14_AcceptedIffTokenMatches ==
    \A c \in Conns :
        link[c].state # "new"
        => LET ok == \E r \in ClassroomTable :
                        /\ r.id = link[c].classroom_id
                        /\ r.is_active = TRUE
                        /\ r.device_token = Supplied(link[c].query)
           IN  /\ link[c].state = "open" <=> ok
               /\ ~ok => (link[c].state = "closed" /\ link[c].code = 4003)
               /\ ok => <<<<"iot_classroom", link[c].classroom_id>>, c>> \in groups

\* one socket refused for an inactive classroom's own token, the other
\* accepted on the second of two token parts
C14_Witness ==
    \E c, d \in Conns :
        /\ link[c].state = "closed" /\ link[c].classroom_id = 3
        /\ Supplied(link[c].query) = "tok3"
        /\ link[d].state = "open" /\ Len(link[d].query) = 2
        /\ link[d].query[1].key = "token"

\* the step in which receive() handles a frame
FrameStep == handled = NoHandled /\ handled' # NoHandled

\* C15: a refused connection is in no group and no frame of it is handled;
\* the refusing handshake changes no group, no table and publishes nothing;
\* every row written and every frame handled belongs to an open connection.
C15_RefusedConnectionNoEffect ==
    /\ [](\A c \in Conns :
             link[c].state = "closed"
             => /\ \A g \in groups : g[2] # c
                /\ handled.conn # c)
    /\ [][\A c \in Conns :
            (link[c].state = "new" /\ link'[c].state = "closed")
            => /\ groups' = groups
               /\ sessions' = sessions
               /\ energy' = energy
               /\ handled' = handled]_vars
    /\ [][(sessions' # sessions \/ energy' # energy \/ FrameStep)
            => /\ handled'.conn \in Conns
               /\ link[handled'.conn].state = "open"]_vars

\* a refused socket next to tables the accepted one has written
C15_Witness ==
    \E c \in Conns :
        /\ link[c].state = "closed"
        /\ sessions # <<>>
        /\ energy # <<>>

\* the classroom of the connection whose frame was handled
OwnRoom == conn[handled.conn].classroom

\* C16 as stated: every handled frame got exactly one reply, and the reply
\* carries the server's current time.
C16_AckCarriesServerTime ==
    handled # NoHandled
    => /\ Len(handled.acks) = 1
       /\ handled.acks[1].timestamp = now

\* C16: every handled frame got exactly one reply; for a body that parsed
\* the reply is ok and carries the server's current time, whichever of
\* rfid_uid, power and timestamp the frame has; for a malformed body it is
\* an error with a message and no time.
C16_ExactlyOneAck ==
    handled # NoHandled
    => /\ Len(handled.acks) = 1
       /\ handled.msg.body = "object"
          => /\ handled.acks[1].status = "ok"
             /\ handled.acks[1].timestamp = now
       /\ handled.msg.body = "malformed"
          => /\ handled.acks[1].status = "error"
             /\ handled.acks[1].timestamp = -1
             /\ handled.acks[1].message # ""

\* a frame with a tag, a reading and a device timestamp answered with the
\* server's time while the scan failed to resolve
C16_Witness ==
    /\ handled # NoHandled
    /\ handled.msg.has_rfid /\ handled.msg.has_power /\ handled.msg.has_timestamp
    /\ handled.msg.rfid_uid = "FFFF"
    /\ handled.acks = <<[status |-> "ok", timestamp |-> now, message |-> ""]>>
    /\ now # 700

\* C17: a malformed body gets one reply with status error; the connection
\* stays open and in its group; no session row, no energy row and no event
\* results, so the next frame meets the state the malformed one met.
C17_MalformedJsonOnlyErrorAck ==
    [][(FrameStep /\ handled'.msg.body = "malformed")
        => /\ Len(handled'.acks) = 1
           /\ handled'.acks[1].status = "error"
           /\ handled'.acks[1].message = "Invalid JSON"
           /\ handled'.events = <<>>
           /\ sessions' = sessions
           /\ energy' = energy
           /\ link' = link
           /\ link[handled'.conn].state = "open"
           /\ groups' = groups
           /\ <<<<"iot_classroom", conn[handled'.conn].classroom>>,
                handled'.conn>> \in groups'
           /\ conn' = conn]_vars

\* a malformed frame handled on a connection that has stored rows before
C17_Witness ==
    /\ handled.msg.body = "malformed"
    /\ \E id \in Ids : sessions[id].classroom = OwnRoom
    /\ \E i \in 1..Len(energy) : energy[i].classroom = OwnRoom
    /\ link[handled.conn].state = "open"

\* the timestamp field is absent, empty, blank or does not parse
BadTimestamp(msg) ==
    \/ ~msg.has_timestamp
    \/ msg.timestamp \in {"", "   ", "not-a-time"}

Attendance == {i \in 1..Len(handled.events) :
                  handled.events[i].type = "attendance_event"}

\* C19 as stated: a frame with the key rfid_uid published exactly one
\* attendance event, to the dashboard group of its connection's classroom.
C19_EveryTagKeyPublishes ==
    (handled # NoHandled /\ handled.msg.body = "object" /\ handled.msg.has_rfid)
    => /\ Cardinality(Attendance) = 1
       /\ \A i \in Attendance :
             handled.events[i].group = <<"dashboard_classroom", OwnRoom>>

\* C19: a frame with a non-empty rfid_uid published exactly one attendance
\* event, to the dashboard group of its connection's classroom and to no
\* other group; with no subscriber in that group the scan is still
\* recorded and the frame acknowledged.
C19_OneAttendanceEventOwnGroup ==
    (handled # NoHandled /\ handled.msg.body = "object"
        /\ handled.msg.has_rfid /\ handled.msg.rfid_uid # "")
    => /\ Cardinality(Attendance) = 1
       /\ \A i \in Attendance :
             /\ handled.events[i].group = <<"dashboard_classroom", OwnRoom>>
             /\ handled.events[i].data.event \in
                   {"attendance_in", "attendance_invalid",
                    "attendance_duplicate", "attendance_error"}
             /\ handled.events[i].data.event \in
                   {"attendance_in", "attendance_invalid"}
                => /\ handled.events[i].data.session_id \in Ids
                   /\ sessions[handled.events[i].data.session_id].classroom
                         = OwnRoom
                   /\ sessions[handled.events[i].data.session_id].rfid_uid_used
                         = handled.msg.rfid_uid
       /\ Len(handled.acks) = 1 /\ handled.acks[1].status = "ok"

\* classroom 2's device created a session and published to classroom 2's
\* dashboard group, which nobody has joined
C19_Witness ==
    /\ handled # NoHandled
    /\ OwnRoom = 2
    /\ handled.msg.rfid_uid = "A1B2"
    /\ \E i \in Attendance : handled.events[i].data.event = "attendance_invalid"
    /\ \E id \in Ids : sessions[id].classroom = 2
    /\ ~ \E g \in groups : g[1] = <<"dashboard_classroom", 2>>

\* C20: a frame with a power value, 0 included, appends exactly one energy
\* row for its connection's classroom and publishes exactly one
\* power_update to that classroom's dashboard group; equal readings are not
\* merged; a frame without one appends none; rows already stored stay as
\* they are.
C20_OneEnergyRowPerReading ==
    /\ [][FrameStep
          => LET msg == handled'.msg
                 k   == conn[handled'.conn].classroom
                 pow == {i \in 1..Len(handled'.events) :
                            handled'.events[i].type = "power_update"}
                 ts  == IF msg.has_timestamp THEN 700 ELSE now
             IN  /\ msg.has_power
                    => /\ energy' = Append(energy,
                                       [classroom |-> k, watts |-> msg.power,
                                        timestamp |-> ts])
                       /\ Cardinality(pow) = 1
                       /\ \A i \in pow :
                            /\ handled'.events[i].group = <<"dashboard_classroom", k>>
                            /\ handled'.events[i].watts = msg.power
                 /\ ~msg.has_power => (energy' = energy /\ pow = {})]_vars
    /\ [][/\ Len(energy') >= Len(energy)
          /\ SubSeq(energy', 1, Len(energy)) = energy]_vars

\* the same zero reading stored twice
C20_Witness ==
    \E i, j \in 1..Len(energy) :
        /\ i < j
        /\ energy[i] = energy[j]
        /\ energy[i].watts = 0

\* C21: when the store fails inside the scan of a frame, the frame still
\* publishes one attendance_error event to its own classroom's group and is
\* answered with the ok reply; the connection stays open and in its group,
\* no session row is left, and a power reading of the same frame is stored
\* and published.
C21_StoreFailureIsAnErrorEvent ==
    [][(FrameStep /\ handled'.fault)
        => LET msg == handled'.msg
               k   == conn[handled'.conn].classroom
               att == {i \in 1..Len(handled'.events) :
                          handled'.events[i].type = "attendance_event"}
               pow == {i \in 1..Len(handled'.events) :
                          handled'.events[i].type = "power_update"}
           IN  /\ Cardinality(att) = 1
               /\ \A i \in att :
                     /\ handled'.events[i].data.event = "attendance_error"
                     /\ handled'.events[i].data.session_id = 0
                     /\ handled'.events[i].group = <<"dashboard_classroom", k>>
               /\ handled'.acks = <<[status |-> "ok", timestamp |-> now,
                                     message |-> ""]>>
               /\ link' = link
               /\ link[handled'.conn].state = "open"
               /\ groups' = groups
               /\ sessions' = sessions
               /\ msg.has_power
                  => /\ Len(energy') = Len(energy) + 1
                     /\ energy'[Len(energy')].classroom = k
                     /\ energy'[Len(energy')].watts = msg.power
                     /\ Cardinality(pow) = 1
               /\ ~msg.has_power => energy' = energy]_vars

\* a known teacher's scan failed in the store while the table was empty:
\* no row, and the reading of the same frame is in the energy table
C21_Witness ==
    /\ handled.fault
    /\ handled.msg.rfid_uid = "A1B2"
    /\ handled.msg.has_power
    /\ OwnRoom = 1
    /\ sessions = <<>>
    /\ energy # <<>>
    /\ energy[Len(energy)].classroom = 1

\* a whole run of either sweep has just ended
SweepRan == ran' # ran /\ ran'.impl \in Impls

\* C24: when the processing of one overdue session fails during a sweep
\* (store write or broadcast error), every other overdue session of that
\* sweep still becomes AUTO_OUT with its auto_timeout event published, and
\* the run completes.
C24_SweepFailureContained ==
    [][SweepRan /\ ran'.kind # "none"
       => /\ ran'.completed
          /\ \A id \in ran'.found \ {ran'.failed} :
                /\ sessions'[id].status = "AUTO_OUT"
                /\ sent'[id] = sent[id] + 1]_vars

\* C25: no operation of the core deletes an AttendanceSession: the table
\* only grows, the row under an id stays that session, and a run of
\* cleanup_old_sessions leaves the table as it was.
C25_SessionsNeverDeleted ==
    [][/\ Len(sessions') >= Len(sessions)
       /\ \A id \in 1..Len(sessions) :
             /\ sessions'[id].teacher = sessions[id].teacher
             /\ sessions'[id].classroom = sessions[id].classroom
             /\ sessions'[id].time_in = sessions[id].time_in
       /\ (ran' # ran /\ ran'.impl = "cleanup") => sessions' = sessions]_vars

\* the cleanup counted both sessions as old, one of them closed, and both
\* are still there
C25_Witness ==
    /\ ran.impl = "cleanup"
    /\ ran.found = {1, 2}
    /\ Len(sessions) = 2
    /\ sessions[1].status = "AUTO_OUT"
    /\ sessions[2].status = "IN"

\* C27: a sweep run at `now` that meets no failure moves to AUTO_OUT exactly
\* the sessions with status IN and expected-out set and <= now and leaves
\* every other session unchanged; no run of the sweep, failed or not,
\* touches a session that is not IN or whose expected-out is unset or
\* after now.
C27_SweepFrame ==
    [][SweepRan
       => /\ Len(sessions') = Len(sessions)
          /\ \A id \in 1..Len(sessions) :
                LET due == /\ sessions[id].status = "IN"
                           /\ sessions[id].expected_out # NoTime
                           /\ sessions[id].expected_out <= now
                    closed == [sessions[id] EXCEPT
                                 !.status = "AUTO_OUT",
                                 !.time_out = sessions[id].expected_out]
                IN  /\ ~due => sessions'[id] = sessions[id]
                    /\ due /\ ran'.kind = "none" => sessions'[id] = closed
                    /\ due => sessions'[id] \in {sessions[id], closed}]_vars

\* a run without failure at 09:05 found session 1 (expected out 09:00) and
\* closed it, with session 2 invalid and untouched
C27_Witness ==
    /\ ran.impl \in Impls
    /\ ran.kind = "none"
    /\ ran.found = {1}
    /\ Len(sessions) = 2
    /\ sessions[1].status = "AUTO_OUT"
    /\ sessions[2].status = "INVALID"
    /\ now = 545

\* C28: whichever path closed it (one-shot task, sweep task, sweep
\* command), an AUTO_OUT session's time_out is its expected-out instant.
C28_TimeOutIsExpectedOut ==
    \A id \in 1..Len(sessions) :
       sessions[id].status = "AUTO_OUT"
       => /\ sessions[id].expected_out # NoTime
          /\ sessions[id].time_out = sessions[id].expected_out

\* one session closed by the one-shot task and one by the management
\* command, both after their expected-out instant
C28_Witness ==
    \E i, j \in 1..Len(sessions) :
       /\ i # j
       /\ task[i].report = "timed_out"
       /\ ran.impl = "command" /\ ran.found = {j} /\ ran.kind = "none"
       /\ sessions[i].status = "AUTO_OUT" /\ sessions[i].time_out < now
       /\ sessions[j].status = "AUTO_OUT" /\ sessions[j].time_out < now

\* the groups channel d is a member of
Memberships(G, d) == {m[1] : m \in {x \in G : x[2] = d}}

\* C22: every event published to the dashboard group of classroom C is
\* received by every dashboard connection subscribed to C and by every
\* connection of the global route, whatever C's active flag was when it
\* connected, and by no connection subscribed to another classroom.
C22_FanOutReachesGlobalDashboards ==
    handled # NoHandled
    => \A d \in Dashboards :
          Len(handled.delivered[d]) =
             IF dash[d].state = "open" /\ dash[d].scope \in {AllRooms, OwnRoom}
             THEN Len(handled.events) ELSE 0

\* C23: a connection of the global route is a member of dashboard_all and
\* of the groups of exactly the classrooms that were active when it
\* connected, and stays so whatever is activated later; a connection of a
\* classroom route is a member of that classroom's group only.
C23_GroupsAreConnectSnapshot ==
    /\ [](\A d \in Dashboards :
            dash[d].state = "open"
            => Memberships(groups, d) =
                  IF dash[d].scope = AllRooms
                  THEN {DashboardAll} \cup {DashboardGroup(k) : k \in dash[d].seen}
                  ELSE {DashboardGroup(dash[d].scope)})
    /\ [][\A d \in Dashboards :
            dash[d].state = "new" /\ dash'[d].state = "open"
            => /\ dash'[d].seen = active
               /\ dash'[d].scope = AllRooms
                  => \A r \in ClassroomTable :
                        <<DashboardGroup(r.id), d>> \in groups' <=> r.id \in active]_vars

\* a global connection made while classroom 2 was inactive is still not in
\* that classroom's group now that it is active, and the other connection
\* is in the group of classroom 2 alone
C23_Witness ==
    /\ dash["ui1"].state = "open" /\ dash["ui1"].scope = AllRooms
    /\ dash["ui1"].seen = {1} /\ active = {1, 2}
    /\ Memberships(groups, "ui1") = {DashboardAll, DashboardGroup(1)}
    /\ dash["ui2"].state = "open" /\ dash["ui2"].scope = 2
    /\ Memberships(groups, "ui2") = {DashboardGroup(2)}

\* C26: a dashboard connection is always accepted and gets exactly one
\* initial_data message (the empty one if the data cannot be built); each
\* {"action": "refresh"} gets exactly one initial_data message built from
\* the tables as they are; any other text, JSON or not, gets no reply,
\* changes nothing and leaves the connection open.
C26_DashboardProtocol ==
    [][\A d \in Dashboards :
          /\ dash[d].state = "new" /\ dash'[d].state # "new"
             => /\ dash'[d].state = "open"
                /\ Len(dash'[d].replies) = 1
                /\ dash'[d].replies[1].type = "initial_data"
                /\ dash'[d].replies[1].data \in
                      {EmptyData,
                       get_dashboard_data(sessions, active, dash'[d].scope, now)}
          /\ dash[d].got = "none" /\ dash'[d].got = "refresh"
             => /\ dash'[d].state = "open"
                /\ dash'[d].replies =
                      <<InitialData(get_dashboard_data(sessions, active,
                                                       dash[d].scope, now))>>
          /\ dash[d].got = "none" /\ dash'[d].got \in DashTexts \ {"refresh"}
             => /\ dash'[d].state = "open"
                /\ dash'[d].replies = <<>>
                /\ groups' = groups
                /\ sessions' = sessions /\ energy' = energy
                /\ active' = active]_vars

\* C29: the channel of a connection that has disconnected, device or
\* dashboard of either route, is a member of no group.
C29_DisconnectedChannelInNoGroup ==
    /\ \A d \in Dashboards :
          dash[d].state = "closed" => Memberships(groups, d) = {}
    /\ \A c \in Conns :
          link[c].state = "new" => Memberships(groups, c) = {}

\* C30: a power message a dashboard connection is sent, on a classroom
\* route or on the global route, carries as classroom_id the id of the
\* classroom whose device reported.
C30_PowerCarriesReportingClassroom ==
    handled # NoHandled
    => \A d \in Dashboards :
          \A i \in 1..Len(handled.delivered[d]) :
             handled.delivered[d][i].type = "power"
             => handled.delivered[d][i].classroom_id = OwnRoom

\* scans of the two teachers in either classroom on Monday and on Tuesday
KeyedScans ==
    { [classroom |-> k, rfid_uid |-> u, ts |-> Combine(d, 470)] :
        k \in Classrooms, u \in {"A1B2", "C3D4"}, d \in Dates }

\* pairs of scans that differ in teacher and classroom, in teacher, in
\* classroom, in date
ScanPairs ==
    LET scan(k, u, d) == [classroom |-> k, rfid_uid |-> u, ts |-> Combine(d, 470)]
    IN  { <<scan(1, "A1B2", 0), scan(2, "C3D4", 0)>>,
          <<scan(1, "A1B2", 0), scan(1, "C3D4", 0)>>,
          <<scan(1, "A1B2", 0), scan(2, "A1B2", 0)>>,
          <<scan(1, "A1B2", 0), scan(1, "A1B2", 1)>> }

\* the (teacher, classroom, date) a scan is about
KeyOf(a) ==
    << (CHOOSE u \in Users : u.rfid_uid = a.rfid_uid).id, a.classroom,
       a.ts \div 1440 >>

\* one scan on table S
RunScan(S, a) == process_rfid(S, schedules, a.classroom, a.rfid_uid, a.ts)

\* C31 as stated: two scans for different keys commute: either order
\* leaves the same sessions and publishes the same events.
C31_ScansCommute ==
    \A p \in ScanPairs :
       KeyOf(p[1]) # KeyOf(p[2])
       => LET a  == p[1]
              b  == p[2]
              a1 == RunScan(sessions, a)
              b2 == RunScan(a1.sessions, b)
              b1 == RunScan(sessions, b)
              a2 == RunScan(b1.sessions, a)
          IN  /\ b2.sessions = a2.sessions
              /\ a1.result = a2.result
              /\ b1.result = b2.result

\* C31 amended: a scan leaves every row already in the table as it was,
\* and two scans for different keys commute up to the session ids, which
\* follow the order of the inserts: either order adds the same rows and
\* gives each scan the same event apart from its session_id.
C31_ScansCommuteUpToIds ==
    \A p \in ScanPairs :
       KeyOf(p[1]) # KeyOf(p[2])
       => LET a  == p[1]
              b  == p[2]
              a1 == RunScan(sessions, a)
              b2 == RunScan(a1.sessions, b)
              b1 == RunScan(sessions, b)
              a2 == RunScan(b1.sessions, a)
              Added(T) == {T[i] : i \in (Len(sessions) + 1)..Len(T)}
              NoId(r) == [r EXCEPT !.session_id = 0]
          IN  /\ \A i \in 1..Len(sessions) :
                    /\ a1.sessions[i] = sessions[i]
                    /\ b2.sessions[i] = sessions[i]
                    /\ a2.sessions[i] = sessions[i]
              /\ Len(b2.sessions) = Len(a2.sessions)
              /\ Added(b2.sessions) = Added(a2.sessions)
              /\ NoId(a1.result) = NoId(a2.result)
              /\ NoId(b1.result) = NoId(b2.result)

\* two scans for different keys have each inserted a row
C31_Witness ==
    /\ Len(sessions) = 2
    /\ sessions[1].teacher # sessions[2].teacher
    /\ sessions[1].classroom # sessions[2].classroom
    /\ sessions[1].status = "IN" /\ sessions[2].status = "IN"

\* the rows of the key of scan a
RowsOfKey(a) ==
    {i \in 1..Len(sessions) :
        <<sessions[i].teacher, sessions[i].classroom, sessions[i].date>> = KeyOf(a)}

\* C37: a scan for a key none of whose sessions is IN is never answered
\* with attendance_duplicate and inserts one more row, whatever INVALID and
\* AUTO_OUT rows the key has; with scans handled one after the other a key
\* has at most one IN row.
C37_DuplicateGuardOnlyIn ==
    \A a \in KeyedScans :
       /\ (\A i \in RowsOfKey(a) : sessions[i].status \in {"INVALID", "AUTO_OUT"})
          => /\ RunScan(sessions, a).result.event
                   \in {"attendance_in", "attendance_invalid"}
             /\ Len(RunScan(sessions, a).sessions) = Len(sessions) + 1
       /\ Cardinality({i \in RowsOfKey(a) : sessions[i].status = "IN"}) <= 1

\* a key with a closed session and, after a further scan, an open one
C37_Witness ==
    /\ Len(sessions) = 2
    /\ sessions[1].teacher = sessions[2].teacher
    /\ sessions[1].classroom = sessions[2].classroom
    /\ sessions[1].date = sessions[2].date
    /\ sessions[1].status = "AUTO_OUT"
    /\ sessions[2].status = "IN"

\* the entry of the pool a created row points to
Chosen(row) == CHOOSE e \in SchedulePool : e.id = row.schedule

\* C32: the schedule match picks at most one entry and is a function of
\* the table and the scan: with entries whose window contains the scan time
\* the one of them that starts earliest is taken, whatever entries start in
\* the 15 minutes after the scan; with none containing it, the earliest of
\* those starting in the 15 minutes after it; otherwise none.  Expected-out
\* is the end time of the entry taken.
C32_MatchIsDeterministic ==
    \A c \in Conns :
        Created(c) =>
            LET row == sessions[conn[c].result.session_id]
                t   == row.time_in - row.date * 1440
                E   == EntriesFor(row)
                inside == {e \in E : e.start_time <= t /\ t <= e.end_time}
                early  == {e \in E : t <= e.start_time /\ e.start_time <= t + 15}
                cands  == IF inside # {} THEN inside ELSE early
            IN  IF cands = {}
                THEN row.schedule = NoSchedule /\ row.expected_out = NoTime
                ELSE /\ row.schedule # NoSchedule
                     /\ Chosen(row) \in cands
                     /\ \A o \in cands : Chosen(row).start_time <= o.start_time
                     /\ row.expected_out = row.date * 1440 + Chosen(row).end_time
                     /\ conn[c].result.expected_out = row.expected_out

\* a scan at 08:05 with the entries 08:00-09:00, 08:10-10:00 and
\* 08:20-09:30: one contains it, two start within 15 minutes
C32_Witness ==
    \E c \in Conns :
        /\ Created(c)
        /\ Cardinality(schedules) = 3
        /\ sessions[conn[c].result.session_id].time_in = 485
        /\ sessions[conn[c].result.session_id].expected_out = 540

\* C33: a device channel is a member of the ingest group of its own
\* classroom and of nothing else, and only while its connection is open; a
\* dashboard channel is a member of dashboard groups only; no event is
\* published to an ingest group, and what a dashboard is sent are the
\* derived attendance and power messages.
C33_GroupFamiliesDisjoint ==
    /\ \A m \in groups :
          /\ m[2] \in Conns
             => /\ link[m[2]].state = "open"
                /\ m[1] = <<"iot_classroom", link[m[2]].classroom_id>>
          /\ m[2] \in Dashboards
             => m[1][1] \in {"dashboard_classroom", "dashboard_all"}
    /\ \A i \in 1..Len(handled.events) :
          handled.events[i].group[1] = "dashboard_classroom"
    /\ \A d \in Dashboards :
          \A i \in 1..Len(handled.delivered[d]) :
             handled.delivered[d][i].type \in {"attendance", "power"}

\* both devices accepted, one dashboard on the global route and one on a
\* classroom route, and a device's reading delivered to a dashboard
C33_Witness ==
    /\ \A c \in Conns : link[c].state = "open"
    /\ \E d, e \in Dashboards :
          /\ dash[d].state = "open" /\ dash[d].scope = AllRooms
          /\ dash[e].state = "open" /\ dash[e].scope # AllRooms
          /\ handled.delivered[d] # <<>>
    /\ \E i \in 1..Len(handled.events) : handled.events[i].type = "power_update"

\* where step x comes in the handled frame's run (0: not in it)
StepAt(x) ==
    IF \E i \in 1..Len(handled.steps) : handled.steps[i] = x
    THEN CHOOSE i \in 1..Len(handled.steps) : handled.steps[i] = x
    ELSE 0

C35_EventAfterRow ==
    [][(handled = NoHandled /\ handled' # NoHandled)
       => \A i \in 1..Len(handled'.events) :
             LET e == handled'.events[i]
             IN  e.type = "attendance_event"
                 => /\ e.data.event \in {"attendance_in", "attendance_invalid"}
                       => /\ Len(sessions') = Len(sessions) + 1
                          /\ e.data.session_id = Len(sessions')
                          /\ sessions'[e.data.session_id].teacher = e.data.teacher
                          /\ sessions'[e.data.session_id].classroom = e.data.classroom
                          /\ sessions'[e.data.session_id].status = e.data.status
                          /\ e.data.status =
                                (IF e.data.event = "attendance_in"
                                 THEN "IN" ELSE "INVALID")
                    /\ e.data.event \in {"attendance_duplicate", "attendance_error"}
                       => sessions' = sessions
                    /\ e.data.event \in {"attendance_in", "attendance_invalid",
                                          "attendance_duplicate", "attendance_error"}]_vars

\* an attendance_in event of a frame, with its row in the store
C35_Witness ==
    \E i \in 1..Len(handled.events) :
       /\ handled.events[i].type = "attendance_event"
       /\ handled.events[i].data.event = "attendance_in"
       /\ handled.events[i].data.session_id = 1
       /\ Len(sessions) = 1
       /\ sessions[1].status = "IN"

\* C36: in every reachable store, a session with status IN has expected_out
\* set and time_out unset; a session with status INVALID has expected_out,
\* schedule and time_out all unset; a session with status AUTO_OUT has
\* expected_out set and time_out equal to it.
C36_StatusFieldsConsistent ==
    \A i \in 1..Len(sessions) :
       LET row == sessions[i]
       IN  /\ row.status \in {"IN", "INVALID", "AUTO_OUT"}
           /\ row.status = "IN"
              => row.expected_out # NoTime /\ row.time_out = NoTime
           /\ row.status = "INVALID"
              => /\ row.expected_out = NoTime
                 /\ row.schedule = NoSchedule
                 /\ row.time_out = NoTime
           /\ row.status = "AUTO_OUT"
              => row.expected_out # NoTime /\ row.time_out = row.expected_out

\* a store holding a closed session next to an invalid one
C36_Witness ==
    /\ \E i \in 1..Len(sessions) : sessions[i].status = "AUTO_OUT"
    /\ \E i \in 1..Len(sessions) : sessions[i].status = "INVALID"

\* C38: the classroom of the rows a frame writes and the dashboard group
\* of the events it publishes are those of the connection's route, and the
\* frame with any other device_id in its payload leaves the same store,
\* publishes the same events and is acknowledged the same way.
C38_DeviceIdIgnored ==
    [][(handled = NoHandled /\ handled' # NoHandled)
       => LET c    == handled'.conn
              room == link[c].classroom_id
          IN  /\ \A i \in 1..Len(handled'.events) :
                    handled'.events[i].group = DashboardGroup(room)
              /\ \A i \in (Len(sessions) + 1)..Len(sessions') :
                    sessions'[i].classroom = room
              /\ \A i \in (Len(energy) + 1)..Len(energy') :
                    energy'[i].classroom = room
              /\ \A d \in DeviceIds :
                    LET out == receive(sessions, energy, schedules, now,
                                       conn[c].classroom,
                                       From(handled'.msg, d), handled'.fault)
                    IN  /\ out.sessions = sessions'
                        /\ out.energy = energy'
                        /\ out.events = handled'.events
                        /\ out.acks = handled'.acks]_vars

\* the device of classroom 1 named the device of classroom 2 in a frame
\* with a scan and a reading: both rows are classroom 1's
C38_Witness ==
    /\ handled # NoHandled
    /\ handled.conn = "dev1"
    /\ handled.msg.device_id = "esp-2"
    /\ Len(handled.events) = 2
    /\ Len(sessions) = 1 /\ sessions[1].classroom = 1
    /\ Len(energy) >= 1 /\ energy[Len(energy)].classroom = 1

====
